---- MODULE Spec2Model ----
(***************************************************************************)
(* physcheck: the inertia plausibility checks of physcheck.analysis.inertia *)
(* and the copies of the geometry-to-inertia formulas in the rewriter      *)
(* (physcheck.scripts.fix_inertials) and the scene builder                 *)
(* (physcheck.visualization.scene).                                        *)
(*                                                                         *)
(* Numbers.  A Python float is modelled as a record: a finite value, NaN,  *)
(* +/-infinity, or None.  A finite mass, tensor entry, eigenvalue or       *)
(* moment is an integer count of 1e-12 (kg for a mass, kg*m^2 for the      *)
(* others, so that a moment m*(l^2)/12 keeps the unit of the mass);        *)
(* lengths are integers in metres.  Arithmetic is exact: finite masses are *)
(* multiples of 60 units, which makes m/12, m/2 and 0.4*m integers.        *)
(* Rounding of IEEE doubles is not modelled.                               *)
(***************************************************************************)
EXTENDS Integers, Sequences, FiniteSets, TLC

\* the check engine and the estimators on one link
VARIABLES link, report, first, est, pc

\* fix_inertias on one document
VARIABLES urdf, flags, model, results, problems, tree, todo, fixed_links, skipped,
          stop, output, rpc

\* build_kinematic_tree, KinematicTree.descendants and compute_tree_layout on one model
VARIABLES umodel, ktree, stack, visited, yielded, layout, tpc

\* build_tree_scene on the link and its report
VARIABLES scene

\* resolve_urdf_path on one robots directory
VARIABLES robots, target, answers, call, result, cpc

evars == <<link, report, first, est, pc>>
rvars == <<urdf, flags, model, results, problems, tree, todo, fixed_links, skipped,
           stop, output, rpc>>
tvars == <<umodel, ktree, stack, visited, yielded, layout, tpc>>
svars == <<scene>>
cvars == <<robots, target, answers, call, result, cpc>>
xvars == <<tvars, svars, cvars>>
vars == <<evars, rvars, xvars>>

\* the parts of the program that a specification does not run
TreeAtRest ==
    /\ umodel = <<>>
    /\ ktree = <<>>
    /\ stack = <<>>
    /\ visited = {}
    /\ yielded = <<>>
    /\ layout = <<>>
    /\ tpc = "unused"

SceneAtRest == scene = <<>>

CliAtRest ==
    /\ robots = <<>>
    /\ target = <<>>
    /\ answers = <<>>
    /\ call = <<>>
    /\ result = <<>>
    /\ cpc = "unused"

(***************************************************************************)
(* Python floats                                                           *)
(***************************************************************************)
Fin(n) == [k |-> "fin", v |-> n]
NaN == [k |-> "nan", v |-> 0]
PosInf == [k |-> "inf", v |-> 1]
NegInf == [k |-> "inf", v |-> -1]
None == [k |-> "none", v |-> 0]

\* math.isfinite / np.isfinite
isfinite(x) == x.k = "fin"

\* x < y on floats: every comparison with NaN is False
FloatLt(x, y) ==
    CASE x.k = "fin" /\ y.k = "fin" -> x.v < y.v
      [] x.k = "fin" /\ y.k = "inf" -> y.v = 1
      [] x.k = "inf" /\ y.k = "fin" -> x.v = -1
      [] x.k = "inf" /\ y.k = "inf" -> x.v < y.v
      [] OTHER -> FALSE

\* x <= y on floats
FloatLe(x, y) ==
    CASE x.k = "nan" \/ y.k = "nan" -> FALSE
      [] OTHER -> FloatLt(x, y) \/ x = y

\* (mass / den) * num for an integer num >= 0, the division first as in
\* (mass / 12.0) * (...), 0.5 * mass * ... and 0.4 * mass * ...: inf * 0 is NaN
FloatScale(mass, num, den) ==
    CASE mass.k = "fin" -> Fin((mass.v \div den) * num)
      [] mass.k = "inf" -> IF num = 0 THEN NaN ELSE mass
      [] OTHER -> NaN

\* a ratio actual / expected of an integer by a float (quotients are kept exact)
Quot(n, d) == [k |-> "quot", n |-> n, d |-> d]
QNaN == [k |-> "nan", n |-> 0, d |-> 1]

FloatDiv(actual, expected) ==
    CASE expected.k = "fin" -> Quot(actual, expected.v)
      [] expected.k = "inf" -> Quot(0, 1)
      [] OTHER -> QNaN

\* p < q on quotients with positive denominators; False when either is NaN
QuotLt(p, q) == p.k = "quot" /\ q.k = "quot" /\ p.n * q.d < q.n * p.d

\* Python's min(): the first element unless a later one compares less
RECURSIVE PyMinFrom(_, _, _)
PyMinFrom(s, i, best) ==
    IF i > Len(s) THEN best
    ELSE PyMinFrom(s, i + 1, IF QuotLt(s[i], best) THEN s[i] ELSE best)

PyMin(s) == PyMinFrom(s, 2, s[1])

\* Python's max(): the first element unless a later one compares greater
RECURSIVE PyMaxFrom(_, _, _)
PyMaxFrom(s, i, best) ==
    IF i > Len(s) THEN best
    ELSE PyMaxFrom(s, i + 1, IF QuotLt(best, s[i]) THEN s[i] ELSE best)

PyMax(s) == PyMaxFrom(s, 2, s[1])

\* np.sort of three integers, ascending
Sort3(a, b, c) ==
    LET lo == IF a <= b /\ a <= c THEN a ELSE IF b <= c THEN b ELSE c
        hi == IF a >= b /\ a >= c THEN a ELSE IF b >= c THEN b ELSE c
    IN  <<lo, a + b + c - lo - hi, hi>>

\* np.sort of three floats, ascending, NaN last
RECURSIVE InsertFloat(_, _)
InsertFloat(x, s) ==
    IF s = <<>> THEN <<x>>
    ELSE IF x.k = "nan" THEN Append(s, x)
    ELSE IF s[1].k = "nan" \/ FloatLe(x, s[1]) THEN <<x>> \o s
    ELSE <<s[1]>> \o InsertFloat(x, Tail(s))

SortFloats(t) == InsertFloat(t[1], InsertFloat(t[2], <<t[3]>>))

Abs(n) == IF n < 0 THEN -n ELSE n

(***************************************************************************)
(* physcheck.urdf.loader: the typed model                                  *)
(***************************************************************************)
NoSize == <<>>
NoField == None

Geometry(type, size, radius, length) ==
    [type |-> type, size |-> size, radius |-> radius, length |-> length]

Box(lx, ly, lz) == Geometry("box", <<lx, ly, lz>>, NoField, NoField)
Cylinder(r, l) == Geometry("cylinder", NoSize, Fin(r), Fin(l))
Sphere(r) == Geometry("sphere", NoSize, Fin(r), NoField)
Mesh == Geometry("mesh", NoSize, NoField, NoField)
Unknown == Geometry("unknown", NoSize, NoField, NoField)

\* an origin: a position in units of 1e-9 m and roll, pitch, yaw as named angles
OriginAt(xyz, rpy) == [xyz |-> xyz, rpy |-> rpy]

Origin == OriginAt(<<0, 0, 0>>, <<"zero", "zero", "zero">>)

CollisionAt(origin, geometry) == [origin |-> origin, geometry |-> geometry]

Collision(geometry) == CollisionAt(Origin, geometry)

Visual(origin, geometry) == [origin |-> origin, geometry |-> geometry, material |-> "none"]

NoInertial == [present |-> FALSE]

Inertial(mass, inertia) ==
    [present |-> TRUE, mass |-> mass, com |-> <<0, 0, 0>>, inertia |-> inertia]

LinkWith(name, inertial, visuals, collisions) ==
    [name |-> name, inertial |-> inertial, visuals |-> visuals, collisions |-> collisions]

Link(name, inertial, collisions) == LinkWith(name, inertial, <<>>, collisions)

\* a test for None in place of the truth value
Truthy_NotNone(x) == x.k # "none"

\* bool(x) of an optional float: None and 0.0 are falsy, NaN and inf are truthy
Truthy(x) == x.k # "none" /\ ~(x.k = "fin" /\ x.v = 0)

(***************************************************************************)
(* Optional results: a value, None, or a raised TypeError (arithmetic or   *)
(* comparison on a None mass)                                              *)
(***************************************************************************)
NoEstimate == [k |-> "none"]
Raised == [k |-> "raise"]
Moments(m, density) == [k |-> "some", moments |-> m, density |-> density]
Array(m) == [k |-> "some", moments |-> m]

Volume(n, d, pi) == [n |-> n, d |-> d, pi |-> pi]

\* density = mass / volume if volume > 0 else float("nan"); the quotient is kept symbolic
Density(mass, volume) ==
    IF volume.n > 0 THEN [k |-> "quot", mass |-> mass, volume |-> volume]
    ELSE [k |-> "nan", mass |-> NaN, volume |-> Volume(0, 1, FALSE)]

(***************************************************************************)
(* physcheck.analysis.inertia: the estimator of the check engine           *)
(***************************************************************************)
\* mutant: the x and y sides exchanged
_box_inertia_Swapped(size, mass) ==
    LET lx == size[2]
        ly == size[1]
        lz == size[3]
        ixx == FloatScale(mass, ly * ly + lz * lz, 12)
        iyy == FloatScale(mass, lx * lx + lz * lz, 12)
        izz == FloatScale(mass, lx * lx + ly * ly, 12)
    IN  IF mass.k = "none" THEN Raised
        ELSE Moments(<<ixx, iyy, izz>>, Density(mass, Volume(lx * ly * lz, 1, FALSE)))

_box_inertia(size, mass) ==
    LET lx == size[1]
        ly == size[2]
        lz == size[3]
        ixx == FloatScale(mass, ly * ly + lz * lz, 12)
        iyy == FloatScale(mass, lx * lx + lz * lz, 12)
        izz == FloatScale(mass, lx * lx + ly * ly, 12)
    IN  IF mass.k = "none" THEN Raised
        ELSE Moments(<<ixx, iyy, izz>>, Density(mass, Volume(lx * ly * lz, 1, FALSE)))

_cylinder_inertia(radius, length, mass) ==
    LET r == radius.v
        L == length.v
        ixx == FloatScale(mass, 3 * r * r + L * L, 12)
        izz == FloatScale(mass, r * r, 2)
    IN  IF mass.k = "none" THEN Raised
        ELSE Moments(<<ixx, ixx, izz>>, Density(mass, Volume(r * r * L, 1, TRUE)))

_sphere_inertia(radius, mass) ==
    LET r == radius.v
        moment == FloatScale(mass, 2 * r * r, 5)
    IN  IF mass.k = "none" THEN Raised
        ELSE Moments(<<moment, moment, moment>>, Density(mass, Volume(4 * r * r * r, 3, TRUE)))

\* mutant: the last entry with a supported primitive instead of the first
RECURSIVE ApproximateFrom_Last(_, _, _)
ApproximateFrom_Last(collisions, i, mass) ==
    IF i > Len(collisions) THEN NoEstimate
    ELSE LET geom == collisions[i].geometry
             later == ApproximateFrom_Last(collisions, i + 1, mass)
         IN  IF later # NoEstimate THEN later
             ELSE IF geom.type = "box" /\ geom.size # NoSize
                THEN _box_inertia(geom.size, mass)
             ELSE IF geom.type = "cylinder" /\ Truthy(geom.radius) /\ Truthy(geom.length)
                THEN _cylinder_inertia(geom.radius, geom.length, mass)
             ELSE IF geom.type = "sphere" /\ Truthy(geom.radius)
                THEN _sphere_inertia(geom.radius, mass)
             ELSE NoEstimate

RECURSIVE ApproximateFrom(_, _, _)
ApproximateFrom(collisions, i, mass) ==
    IF i > Len(collisions) THEN NoEstimate
    ELSE LET geom == collisions[i].geometry
         IN  IF geom.type = "box" /\ geom.size # NoSize
                THEN _box_inertia(geom.size, mass)
             ELSE IF geom.type = "cylinder" /\ Truthy(geom.radius) /\ Truthy(geom.length)
                THEN _cylinder_inertia(geom.radius, geom.length, mass)
             ELSE IF geom.type = "sphere" /\ Truthy(geom.radius)
                THEN _sphere_inertia(geom.radius, mass)
             ELSE ApproximateFrom(collisions, i + 1, mass)

_approximate_collision_inertia(collisions, mass) == ApproximateFrom(collisions, 1, mass)

(***************************************************************************)
(* physcheck.scripts.fix_inertials: the estimator of the rewriter          *)
(***************************************************************************)
_primitive_inertia_diag(geom, mass) ==
    IF mass.k = "none" THEN Raised
    ELSE IF FloatLe(mass, Fin(0)) \/ ~isfinite(mass) THEN NoEstimate
    ELSE IF geom.type = "box" /\ geom.size # NoSize THEN
        LET lx == geom.size[1]
            ly == geom.size[2]
            lz == geom.size[3]
        IN  Array(<<FloatScale(mass, ly * ly + lz * lz, 12),
                    FloatScale(mass, lx * lx + lz * lz, 12),
                    FloatScale(mass, lx * lx + ly * ly, 12)>>)
    ELSE IF geom.type = "cylinder" /\ Truthy(geom.radius) /\ Truthy(geom.length) THEN
        LET r == geom.radius.v
            L == geom.length.v
            ixx == FloatScale(mass, 3 * r * r + L * L, 12)
        IN  Array(<<ixx, ixx, FloatScale(mass, r * r, 2)>>)
    ELSE IF geom.type = "sphere" /\ Truthy(geom.radius) THEN
        LET r == geom.radius.v
            moment == FloatScale(mass, 2 * r * r, 5)
        IN  Array(<<moment, moment, moment>>)
    ELSE NoEstimate

(***************************************************************************)
(* physcheck.visualization.scene: the estimator of the scene builder       *)
(***************************************************************************)
RECURSIVE EstimateFrom(_, _, _)
EstimateFrom(collisions, i, mass) ==
    IF i > Len(collisions) THEN NoEstimate
    ELSE LET geom == collisions[i].geometry
         IN  IF geom.type = "box" /\ geom.size # NoSize THEN
                 LET lx == geom.size[1]
                     ly == geom.size[2]
                     lz == geom.size[3]
                 IN  Array(<<FloatScale(mass, ly * ly + lz * lz, 12),
                             FloatScale(mass, lx * lx + lz * lz, 12),
                             FloatScale(mass, lx * lx + ly * ly, 12)>>)
             ELSE IF geom.type = "cylinder" /\ Truthy(geom.radius) /\ Truthy(geom.length) THEN
                 LET r == geom.radius.v
                     L == geom.length.v
                     ixx == FloatScale(mass, 3 * r * r + L * L, 12)
                 IN  Array(<<ixx, ixx, FloatScale(mass, r * r, 2)>>)
             ELSE IF geom.type = "sphere" /\ Truthy(geom.radius) THEN
                 LET r == geom.radius.v
                     moment == FloatScale(mass, 2 * r * r, 5)
                 IN  Array(<<moment, moment, moment>>)
             ELSE EstimateFrom(collisions, i + 1, mass)

_estimate_collision_eigenvalues(collisions, mass) ==
    IF mass.k = "none" THEN Raised
    ELSE IF ~isfinite(mass) \/ FloatLe(mass, Fin(0)) THEN NoEstimate
    ELSE EstimateFrom(collisions, 1, mass)

(***************************************************************************)
(* physcheck.analysis.inertia: the check engine                            *)
(***************************************************************************)
\* tol = 1e-9 of evaluate_link_inertia, in units of 1e-12
Tol == 1000
\* the 1e-12 of the zero_mass_inertia test
EntryTol == 1
\* max_ratio = 1e3 of _check_eigenvalue_ratio
MaxRatio == 1000
\* the 1e-9 floor of min_val in _check_eigenvalue_ratio
MinEig == 1000
\* the 1e-9 of the pairing loop of _check_geometry_consistency
PairTol == 1000
\* ratio_ok = (0.2 <= min_ratio) and (max_ratio <= 5.0): 0.2 is 1 / LowDen
LowDen == 5
HighRatio == 5

InertiaCheck(check, passed, severity, message, details) ==
    [check |-> check, passed |-> passed, severity |-> severity,
     message |-> message, details |-> details]

NoDetails == <<>>
NoCheck == [check |-> "None"]

_build_inertia_matrix(entries) ==
    LET ixx == entries[1]
        ixy == entries[2]
        ixz == entries[3]
        iyy == entries[4]
        iyz == entries[5]
        izz == entries[6]
    IN  <<<<ixx, ixy, ixz>>, <<ixy, iyy, iyz>>, <<ixz, iyz, izz>>>>

\* np.linalg.eigvalsh, ascending, on the matrices whose eigenvalues are integers
\* in closed form: diagonal ones, and those with one non-zero off-diagonal
\* entry coupling two equal diagonal entries (eigenvalues a - |b|, a + |b|).
eigvalsh(matrix) ==
    LET a == matrix[1][1]
        b == matrix[2][2]
        c == matrix[3][3]
        xy == matrix[1][2]
        xz == matrix[1][3]
        yz == matrix[2][3]
    IN  CASE xy = 0 /\ xz = 0 /\ yz = 0 -> Sort3(a, b, c)
          [] xy # 0 /\ xz = 0 /\ yz = 0 /\ a = b -> Sort3(a - Abs(xy), a + Abs(xy), c)
          [] xz # 0 /\ xy = 0 /\ yz = 0 /\ a = c -> Sort3(a - Abs(xz), a + Abs(xz), b)
          [] yz # 0 /\ xy = 0 /\ xz = 0 /\ b = c -> Sort3(b - Abs(yz), b + Abs(yz), a)

\* mass is None or not isfinite(mass)
MassNotFinite(mass) == mass.k = "none" \/ ~isfinite(mass)

\* mutant: mass < 0.0
MassNegative(mass) == FloatLt(mass, Fin(0))

\* mass <= 0.0, on a finite mass
MassNotPositive(mass) == FloatLe(mass, Fin(0))

MassChecks(mass) ==
    IF MassNotFinite(mass) THEN
        <<InertiaCheck("mass_finite", FALSE, "error",
                       "Link mass is missing or non-finite.", [mass |-> mass])>>
    ELSE IF MassNotPositive(mass) THEN
        <<InertiaCheck("mass_positive", FALSE, "error",
                       "Link mass must be positive.", [mass |-> mass])>>
    ELSE
        <<InertiaCheck("mass_positive", TRUE, "info",
                       "Mass is positive.", [mass |-> mass])>>

\* mutant: only the diagonal is looked at
AnyDiagonalAbove(matrix) == \E i \in 1..3 : Abs(matrix[i][i]) > EntryTol

\* np.any(np.abs(matrix) > 1e-12)
AnyEntryAbove(matrix) ==
    \E i \in 1..3 : \E j \in 1..3 : Abs(matrix[i][j]) > EntryTol

\* mass == 0.0 and np.any(...)
ZeroMassWithInertia(mass, matrix) == mass = Fin(0) /\ AnyEntryAbove(matrix)

ZeroMassChecks(mass, matrix) ==
    IF ZeroMassWithInertia(mass, matrix) THEN
        <<InertiaCheck("zero_mass_inertia", FALSE, "error",
                       "Zero-mass link has non-zero inertia tensor.", NoDetails)>>
    ELSE <<>>

\* mutant: eigvals >= tol
AllAtLeast(eigvals, tol) == \A i \in 1..3 : eigvals[i] >= tol

\* bool(np.all(eigvals > tol))
AllAbove(eigvals, tol) == \A i \in 1..3 : eigvals[i] > tol

PositiveDefiniteCheck(eigvals) ==
    LET positive_definite == AllAbove(eigvals, Tol)
    IN  InertiaCheck("positive_definite", positive_definite,
                     IF ~positive_definite THEN "error" ELSE "info",
                     IF positive_definite THEN "Inertia tensor is positive definite."
                     ELSE "Inertia tensor is not positive definite.",
                     [eigenvalues |-> eigvals])

\* mutant: no early return on an eigenvalue below tol
_check_triangle_inequality_NoFloor(eigvals, tol) ==
    LET vals == Sort3(eigvals[1], eigvals[2], eigvals[3])
        a == vals[1]
        b == vals[2]
        c == vals[3]
    IN  (a <= b + c + tol) /\ (b <= a + c + tol) /\ (c <= a + b + tol)

\* mutant: an eigenvalue equal to tol returns early as well
_check_triangle_inequality_FloorInclusive(eigvals, tol) ==
    LET vals == Sort3(eigvals[1], eigvals[2], eigvals[3])
        a == vals[1]
        b == vals[2]
        c == vals[3]
    IN  IF \E i \in 1..3 : vals[i] <= tol THEN FALSE
        ELSE (a <= b + c + tol) /\ (b <= a + c + tol) /\ (c <= a + b + tol)

_check_triangle_inequality(eigvals, tol) ==
    LET vals == Sort3(eigvals[1], eigvals[2], eigvals[3])
        a == vals[1]
        b == vals[2]
        c == vals[3]
    IN  IF \E i \in 1..3 : vals[i] < tol THEN FALSE
        ELSE (a <= b + c + tol) /\ (b <= a + c + tol) /\ (c <= a + b + tol)

TriangleCheck(eigvals) ==
    LET triangle_ok == _check_triangle_inequality(eigvals, Tol)
    IN  InertiaCheck("triangle_inequality", triangle_ok,
                     IF ~triangle_ok THEN "error" ELSE "info",
                     IF triangle_ok THEN "Triangle inequalities satisfied."
                     ELSE "Triangle inequality violated for principal moments.",
                     [eigenvalues |-> eigvals])

\* mutant: ratio < max_ratio
_check_eigenvalue_ratio_Strict(eigvals, max_ratio) ==
    LET vals == Sort3(eigvals[1], eigvals[2], eigvals[3])
        min_val == IF vals[1] > MinEig THEN vals[1] ELSE MinEig
        max_val == vals[3]
    IN  [ok |-> max_val < max_ratio * min_val,
         details |-> [max |-> max_val, min |-> min_val, ratio |-> Quot(max_val, min_val)]]

\* returns (ratio <= max_ratio, {"max", "min", "ratio"})
_check_eigenvalue_ratio(eigvals, max_ratio) ==
    LET vals == Sort3(eigvals[1], eigvals[2], eigvals[3])
        min_val == IF vals[1] > MinEig THEN vals[1] ELSE MinEig
        max_val == vals[3]
    IN  [ok |-> max_val <= max_ratio * min_val,
         details |-> [max |-> max_val, min |-> min_val, ratio |-> Quot(max_val, min_val)]]

\* mutant: a failing ratio reported as an error
RatioCheck_Error(eigvals) ==
    LET r == _check_eigenvalue_ratio(eigvals, MaxRatio)
    IN  InertiaCheck("eigenvalue_ratio", r.ok,
                     IF ~r.ok THEN "error" ELSE "info",
                     IF r.ok THEN "Eigenvalue ratio within bounds."
                     ELSE "Eigenvalue ratio exceeds recommended threshold.",
                     r.details)

RatioCheck(eigvals) ==
    LET r == _check_eigenvalue_ratio(eigvals, MaxRatio)
    IN  InertiaCheck("eigenvalue_ratio", r.ok,
                     IF ~r.ok THEN "warning" ELSE "info",
                     IF r.ok THEN "Eigenvalue ratio within bounds."
                     ELSE "Eigenvalue ratio exceeds recommended threshold.",
                     r.details)

\* if mass is None or mass <= 0.0: return None
GeometryMassGuard(mass) == mass.k = "none" \/ FloatLe(mass, Fin(0))

\* mutant: expected <= 1e-9 or actual <= 1e-9
PairSkipped_Inclusive(actual, expected) ==
    FloatLe(expected, Fin(PairTol)) \/ actual <= PairTol

\* if expected < 1e-9 or actual < 1e-9: continue
PairSkipped(actual, expected) == FloatLt(expected, Fin(PairTol)) \/ actual < PairTol

RECURSIVE PairRatios(_, _, _)
PairRatios(actual_sorted, expected_sorted, i) ==
    IF i > 3 THEN <<>>
    ELSE (IF PairSkipped(actual_sorted[i], expected_sorted[i]) THEN <<>>
          ELSE <<FloatDiv(actual_sorted[i], expected_sorted[i])>>)
         \o PairRatios(actual_sorted, expected_sorted, i + 1)

\* 0.2 <= x on a quotient
AtLeastLow(x) == x.k = "quot" /\ x.d <= LowDen * x.n

\* x <= 5.0 on a quotient
AtMostHigh(x) == x.k = "quot" /\ x.n <= HighRatio * x.d

RatioRangeOk(min_ratio, max_ratio) == AtLeastLow(min_ratio) /\ AtMostHigh(max_ratio)

_check_geometry_consistency(l, mass, eigvals) ==
    IF GeometryMassGuard(mass) THEN NoCheck
    ELSE LET approx == _approximate_collision_inertia(l.collisions, mass)
         IN  IF approx = NoEstimate THEN NoCheck
             ELSE LET actual_sorted == Sort3(eigvals[1], eigvals[2], eigvals[3])
                      expected_sorted == SortFloats(approx.moments)
                      ratios == PairRatios(actual_sorted, expected_sorted, 1)
                  IN  IF ratios = <<>> THEN NoCheck
                      ELSE LET min_ratio == PyMin(ratios)
                               max_ratio == PyMax(ratios)
                               ratio_ok == RatioRangeOk(min_ratio, max_ratio)
                           IN  InertiaCheck("geometry_consistency", ratio_ok,
                                   IF ~ratio_ok THEN "warning" ELSE "info",
                                   IF ratio_ok
                                   THEN "Inertia aligns with collision geometry estimate."
                                   ELSE "Inertia deviates from collision geometry estimate.",
                                   [expected_eigenvalues |-> expected_sorted,
                                    actual_eigenvalues |-> actual_sorted,
                                    ratio_range |-> <<min_ratio, max_ratio>>,
                                    density_estimate |-> approx.density])

GeometryChecks(l, mass, eigvals) ==
    LET geom_check == _check_geometry_consistency(l, mass, eigvals)
    IN  IF geom_check # NoCheck THEN <<geom_check>> ELSE <<>>

\* mutant: the missing inertial reported as an error
MissingInertialCheck_Error ==
    InertiaCheck("inertial_present", FALSE, "error",
                 "Link has no <inertial> definition.", NoDetails)

MissingInertialCheck ==
    InertiaCheck("inertial_present", FALSE, "warning",
                 "Link has no <inertial> definition.", NoDetails)

\* mutant: the tensor checks are skipped once mass_finite has failed
evaluate_link_inertia_MassGated(l) ==
    IF ~l.inertial.present THEN <<MissingInertialCheck>>
    ELSE LET mass == l.inertial.mass
             matrix == _build_inertia_matrix(l.inertial.inertia)
             eigvals == eigvalsh(matrix)
         IN  IF MassNotFinite(mass) THEN MassChecks(mass)
             ELSE MassChecks(mass)
                  \o ZeroMassChecks(mass, matrix)
                  \o <<PositiveDefiniteCheck(eigvals), TriangleCheck(eigvals),
                       RatioCheck(eigvals)>>
                  \o GeometryChecks(l, mass, eigvals)

evaluate_link_inertia(l) ==
    IF ~l.inertial.present THEN <<MissingInertialCheck>>
    ELSE LET mass == l.inertial.mass
             matrix == _build_inertia_matrix(l.inertial.inertia)
             eigvals == eigvalsh(matrix)
         IN  MassChecks(mass)
             \o ZeroMassChecks(mass, matrix)
             \o <<PositiveDefiniteCheck(eigvals), TriangleCheck(eigvals), RatioCheck(eigvals)>>
             \o GeometryChecks(l, mass, eigvals)

(***************************************************************************)
(* The estimators as their callers reach them                              *)
(***************************************************************************)
\* the check engine: _check_geometry_consistency guards the mass, then estimates
EngineEstimate(l) ==
    IF GeometryMassGuard(l.inertial.mass) THEN NoEstimate
    ELSE _approximate_collision_inertia(l.collisions, l.inertial.mass)

\* the rewriter with prefer_collision: the first collision's geometry
RewriterEstimate(l) == _primitive_inertia_diag(l.collisions[1].geometry, l.inertial.mass)

\* the scene builder: build_tree_scene on a link with collisions and an inertial
SceneEstimate(l) == _estimate_collision_eigenvalues(l.collisions, l.inertial.mass)

(***************************************************************************)
(* Numbers of the rewriter.  A number of the document (an attribute of the *)
(* XML, a matrix entry before it is written) is an exact fraction n/d of   *)
(* the unit, d > 0, in lowest terms: a rotation by the angle with cosine   *)
(* 3/5 and sine 4/5 gives entries with denominator 25, which is how an     *)
(* entry below 1e-12 (one unit) arises.                                    *)
(***************************************************************************)
RECURSIVE GCD(_, _)
GCD(a, b) == IF b = 0 THEN a ELSE GCD(b, a % b)

Rat(n, d) ==
    LET g == GCD(Abs(n), d)
    IN  IF n = 0 THEN [n |-> 0, d |-> 1] ELSE [n |-> n \div g, d |-> d \div g]

Whole(n) == [n |-> n, d |-> 1]

\* x * y, reduced before the products are formed
RatMul(x, y) ==
    LET g1 == IF x.n = 0 THEN y.d ELSE GCD(Abs(x.n), y.d)
        g2 == IF y.n = 0 THEN x.d ELSE GCD(Abs(y.n), x.d)
    IN  Rat((x.n \div g1) * (y.n \div g2), (x.d \div g2) * (y.d \div g1))

RatAdd(x, y) ==
    IF x.n = 0 THEN y
    ELSE IF y.n = 0 THEN x
    ELSE Rat(x.n * y.d + y.n * x.d, x.d * y.d)

\* abs(x) < tol for an integer tol
RatAbsBelow(x, tol) == Abs(x.n) < tol * x.d

\* float(text) of an attribute that holds a whole number of units
ParseFloat(x) == Fin(x.n \div x.d)

(***************************************************************************)
(* _fmt: f"{float(x):.9g}", the nearest decimal with nine significant      *)
(* digits.  A number whose decimal expansion has at most nine digits is    *)
(* written as it is; a ten-digit one loses its last digit (round half to   *)
(* even on the decimal digits).                                            *)
(***************************************************************************)
SignificantDigits == 9

RECURSIVE Pow10(_)
Pow10(k) == IF k = 0 THEN 1 ELSE 10 * Pow10(k - 1)

\* the least e with d | 10^e, for a denominator 2^a * 5^b
RECURSIVE DecimalPlaces(_, _)
DecimalPlaces(d, e) == IF Pow10(e) % d = 0 THEN e ELSE DecimalPlaces(d, e + 1)

\* the last digit is dropped: half to even
RoundLastDigit(m) ==
    LET q == Abs(m) \div 10
        r == Abs(m) % 10
        up == r > 5 \/ (r = 5 /\ q % 2 = 1)
        a == IF up THEN q + 1 ELSE q
    IN  IF m < 0 THEN -a ELSE a

\* a formatter that cuts the last digit off instead of rounding
_fmt_Truncating(x) ==
    LET e == DecimalPlaces(x.d, 0)
        m == x.n * (Pow10(e) \div x.d)
    IN  IF Abs(m) < Pow10(SignificantDigits) THEN x
        ELSE Rat((m \div 10) * 10, Pow10(e))

\* a formatter that writes the number as it is
_fmt_Exact(x) == x

_fmt(x) ==
    LET e == DecimalPlaces(x.d, 0)
        m == x.n * (Pow10(e) \div x.d)
    IN  IF Abs(m) < Pow10(SignificantDigits) THEN x
        ELSE IF e = 0 THEN Whole(RoundLastDigit(m) * 10)
        ELSE Rat(RoundLastDigit(m), Pow10(e - 1))

(***************************************************************************)
(* physcheck.scripts.fix_inertials: rotation and sanitising of the tensor  *)
(***************************************************************************)
\* angles of an origin: 0, the angle with cosine 3/5 and sine 4/5, a quarter turn
Angles == {"zero", "acos(3/5)", "quarter"}

cos(a) == CASE a = "zero" -> Whole(1) [] a = "acos(3/5)" -> Rat(3, 5) [] a = "quarter" -> Whole(0)
sin(a) == CASE a = "zero" -> Whole(0) [] a = "acos(3/5)" -> Rat(4, 5) [] a = "quarter" -> Whole(1)

RatNeg(x) == [n |-> -x.n, d |-> x.d]

\* A @ B for 3x3 matrices
Dot(A, B, i, j) ==
    RatAdd(RatAdd(RatMul(A[i][1], B[1][j]), RatMul(A[i][2], B[2][j])),
           RatMul(A[i][3], B[3][j]))

MatMul(A, B) ==
    <<<<Dot(A, B, 1, 1), Dot(A, B, 1, 2), Dot(A, B, 1, 3)>>,
      <<Dot(A, B, 2, 1), Dot(A, B, 2, 2), Dot(A, B, 2, 3)>>,
      <<Dot(A, B, 3, 1), Dot(A, B, 3, 2), Dot(A, B, 3, 3)>>>>

Transpose(A) ==
    <<<<A[1][1], A[2][1], A[3][1]>>,
      <<A[1][2], A[2][2], A[3][2]>>,
      <<A[1][3], A[2][3], A[3][3]>>>>

\* np.diag(diag_moments)
Diag(m) ==
    <<<<m[1], Whole(0), Whole(0)>>,
      <<Whole(0), m[2], Whole(0)>>,
      <<Whole(0), Whole(0), m[3]>>>>

\* the order Rx * Ry * Rz instead of Rz * Ry * Rx
_rpy_to_matrix_Reversed(rpy) ==
    LET O == Whole(0)
        I == Whole(1)
        Rx == <<<<I, O, O>>, <<O, cos(rpy[1]), RatNeg(sin(rpy[1]))>>, <<O, sin(rpy[1]), cos(rpy[1])>>>>
        Ry == <<<<cos(rpy[2]), O, sin(rpy[2])>>, <<O, I, O>>, <<RatNeg(sin(rpy[2])), O, cos(rpy[2])>>>>
        Rz == <<<<cos(rpy[3]), RatNeg(sin(rpy[3])), O>>, <<sin(rpy[3]), cos(rpy[3]), O>>, <<O, O, I>>>>
    IN  MatMul(MatMul(Rx, Ry), Rz)

_rpy_to_matrix(rpy) ==
    LET O == Whole(0)
        I == Whole(1)
        cr == cos(rpy[1])
        sr == sin(rpy[1])
        cp == cos(rpy[2])
        sp == sin(rpy[2])
        cy == cos(rpy[3])
        sy == sin(rpy[3])
        Rx == <<<<I, O, O>>, <<O, cr, RatNeg(sr)>>, <<O, sr, cr>>>>
        Ry == <<<<cp, O, sp>>, <<O, I, O>>, <<RatNeg(sp), O, cp>>>>
        Rz == <<<<cy, RatNeg(sy), O>>, <<sy, cy, O>>, <<O, O, I>>>>
    IN  MatMul(MatMul(Rz, Ry), Rx)

\* R @ np.diag(diag_moments) @ R.T
_rotate_inertia(diag_moments, R) == MatMul(MatMul(R, Diag(diag_moments)), Transpose(R))

\* tol of _sanitize_inertia_matrix, 1e-12
SanitizeTol == 1

\* 0.5 * (matrix + matrix.T) at one entry
Symmetrized(matrix, i, j) == RatMul(Rat(1, 2), RatAdd(matrix[i][j], matrix[j][i]))

\* a zeroing that also takes an entry equal to the tolerance
Zeroed_Inclusive(x, tol) ==
    IF RatAbsBelow(x, tol) \/ Abs(x.n) = tol * x.d THEN Whole(0) ELSE x

\* sym[np.abs(sym) < tol] = 0.0 at one entry
Zeroed(x, tol) == IF RatAbsBelow(x, tol) THEN Whole(0) ELSE x

Clean(matrix, i, j, tol) == Zeroed(Symmetrized(matrix, i, j), tol)

\* sym = 0.5 * (matrix + matrix.T); sym[np.abs(sym) < tol] = 0.0
_sanitize_inertia_matrix(matrix, tol) ==
    <<<<Clean(matrix, 1, 1, tol), Clean(matrix, 1, 2, tol), Clean(matrix, 1, 3, tol)>>,
      <<Clean(matrix, 2, 1, tol), Clean(matrix, 2, 2, tol), Clean(matrix, 2, 3, tol)>>,
      <<Clean(matrix, 3, 1, tol), Clean(matrix, 3, 2, tol), Clean(matrix, 3, 3, tol)>>>>

(***************************************************************************)
(* The URDF document: the <link> elements of the file.  An attribute that  *)
(* holds a number is the number its text denotes; a mass value can also be *)
(* missing or be text that float() rejects.                                *)
(***************************************************************************)
AbsentMass == [k |-> "absent", v |-> 0]
NoValue == [k |-> "novalue", v |-> 0]
Unparsable == [k |-> "text", v |-> 0]

OriginElement(xyz, rpy) == [present |-> TRUE, xyz |-> xyz, rpy |-> rpy]
NoOriginElement == [present |-> FALSE, xyz |-> <<0, 0, 0>>, rpy |-> <<"zero", "zero", "zero">>]

InertiaElement(attrs) == [present |-> TRUE, attrs |-> attrs]
NoInertiaElement == [present |-> FALSE, attrs |-> <<>>]

InertialElement(mass, origin, inertia) ==
    [present |-> TRUE, mass |-> mass, origin |-> origin, inertia |-> inertia]
NoInertialElement ==
    [present |-> FALSE, mass |-> AbsentMass, origin |-> NoOriginElement,
     inertia |-> NoInertiaElement]

LinkElement(name, inertial, visuals, collisions) ==
    [name |-> name, inertial |-> inertial, visuals |-> visuals, collisions |-> collisions]

(***************************************************************************)
(* physcheck.urdf.loader: parsing the document                             *)
(***************************************************************************)
\* float(mass_el.attrib["value"]) raises for a missing attribute and for other text
MassRaises(mass) == mass.k \in {"novalue", "text"}

_parse_inertial(element) ==
    IF ~element.present THEN NoInertial
    ELSE IF element.mass = AbsentMass \/ ~element.inertia.present THEN NoInertial
    ELSE [present |-> TRUE,
          mass |-> element.mass,
          com |-> element.origin.xyz,
          inertia |-> <<ParseFloat(element.inertia.attrs[1]).v,
                        ParseFloat(element.inertia.attrs[2]).v,
                        ParseFloat(element.inertia.attrs[3]).v,
                        ParseFloat(element.inertia.attrs[4]).v,
                        ParseFloat(element.inertia.attrs[5]).v,
                        ParseFloat(element.inertia.attrs[6]).v>>]

\* the element makes _parse_inertial raise
InertialRaises(element) ==
    element.present /\ element.mass # AbsentMass /\ element.inertia.present
        /\ MassRaises(element.mass)

_parse_visuals(parent) == parent.visuals

_parse_collisions(parent) ==
    [i \in DOMAIN parent.collisions |->
        CollisionAt(parent.collisions[i].origin, parent.collisions[i].geometry)]

_parse_links(robot) ==
    [i \in DOMAIN robot |->
        LinkWith(robot[i].name, _parse_inertial(robot[i].inertial),
                 _parse_visuals(robot[i]), _parse_collisions(robot[i]))]

LoadRaises(robot) == \E i \in DOMAIN robot : InertialRaises(robot[i].inertial)

(***************************************************************************)
(* physcheck.analysis.inertia: the summary of a model                      *)
(***************************************************************************)
\* the checks kept for a link: all of them
SummaryChecks_FailingOnly(l) == SelectSeq(evaluate_link_inertia(l), LAMBDA c : ~c.passed)

SummaryChecks(l) == evaluate_link_inertia(l)

\* {link.name: evaluate_link_inertia(link) for link in links}: a later link replaces
\* an earlier one of the same name
RECURSIVE SummarizeFrom(_, _, _)
SummarizeFrom(links, i, mapping) ==
    IF i > Len(links) THEN mapping
    ELSE SummarizeFrom(links, i + 1,
            [n \in DOMAIN mapping \cup {links[i].name} |->
                IF n = links[i].name THEN SummaryChecks(links[i]) ELSE mapping[n]])

summarize_model_inertia(links) == SummarizeFrom(links, 1, <<>>)

(***************************************************************************)
(* physcheck.scripts.fix_inertials: selecting the links to rewrite         *)
(***************************************************************************)
\* a filter that keeps the warnings whatever the flag says
KeptByFilter_AllSeverities(c, include_warnings, include_triangle) ==
    /\ ~c.passed
    /\ include_triangle \/ c.check # "triangle_inequality"

\* a failing check that the two filters of _collect_problem_links keep
KeptByFilter(c, include_warnings, include_triangle) ==
    /\ ~c.passed
    /\ include_warnings \/ c.severity = "error"
    /\ include_triangle \/ c.check # "triangle_inequality"

\* problems[link.name] = {...}: a name that is already a key keeps its place
PutProblem(found, entry) ==
    IF \E i \in DOMAIN found : found[i].name = entry.name
    THEN [i \in DOMAIN found |->
            IF found[i].name = entry.name THEN entry ELSE found[i]]
    ELSE Append(found, entry)

RECURSIVE CollectFrom(_, _, _, _, _, _)
CollectFrom(links, summary, i, found, include_warnings, include_triangle) ==
    IF i > Len(links) THEN found
    ELSE LET checks == summary[links[i].name]
             failing == SelectSeq(checks,
                            LAMBDA c : KeptByFilter(c, include_warnings, include_triangle))
         IN  CollectFrom(links, summary, i + 1,
                 IF failing = <<>> THEN found
                 ELSE PutProblem(found,
                         [name |-> links[i].name, link |-> links[i], checks |-> failing]),
                 include_warnings, include_triangle)

_collect_problem_links(links, include_warnings, include_triangle) ==
    CollectFrom(links, summarize_model_inertia(links), 1, <<>>,
                include_warnings, include_triangle)

(***************************************************************************)
(* physcheck.scripts.fix_inertials: the rewrite of one link                *)
(***************************************************************************)
NoGeometry == Geometry("none", NoSize, NoField, NoField)

Source(label, geometry, origin) ==
    [label |-> label, geometry |-> geometry, xyz |-> origin.xyz, rpy |-> origin.rpy]

\* a choice that takes the visual first whatever the preference
_pick_geometry_source_VisualFirst(prefer_collision, l) ==
    IF l.visuals # <<>> THEN Source("visual", l.visuals[1].geometry, l.visuals[1].origin)
    ELSE IF l.collisions # <<>>
         THEN Source("collision", l.collisions[1].geometry, l.collisions[1].origin)
    ELSE Source("none", NoGeometry, Origin)

_pick_geometry_source(prefer_collision, l) ==
    IF prefer_collision THEN
        IF l.collisions # <<>>
        THEN Source("collision", l.collisions[1].geometry, l.collisions[1].origin)
        ELSE IF l.visuals # <<>>
             THEN Source("visual", l.visuals[1].geometry, l.visuals[1].origin)
        ELSE Source("none", NoGeometry, Origin)
    ELSE
        IF l.visuals # <<>>
        THEN Source("visual", l.visuals[1].geometry, l.visuals[1].origin)
        ELSE IF l.collisions # <<>>
             THEN Source("collision", l.collisions[1].geometry, l.collisions[1].origin)
        ELSE Source("none", NoGeometry, Origin)

\* the index of the first <link> with this name, 0 for None
_find_link_element(root, name) ==
    IF \E i \in DOMAIN root : root[i].name = name
    THEN CHOOSE i \in DOMAIN root :
            root[i].name = name /\ \A j \in DOMAIN root : root[j].name = name => i <= j
    ELSE 0

\* the persisted mass, None when it is missing or float() rejects it
_get_mass_from_link_element(link_el) ==
    IF ~link_el.inertial.present THEN None
    ELSE IF link_el.inertial.mass = AbsentMass THEN None
    ELSE IF MassRaises(link_el.inertial.mass) THEN None
    ELSE link_el.inertial.mass

\* a test of the persisted mass that lets a non-finite mass through
MassUnusable_NoFiniteTest(mass) == mass = None \/ FloatLe(mass, Fin(0))

\* mass is None or mass <= 0.0 or not np.isfinite(mass)
MassUnusable(mass) == mass = None \/ FloatLe(mass, Fin(0)) \/ ~isfinite(mass)

\* an inertial element that is always made anew
_ensure_inertial_Fresh(link_el) == [NoInertialElement EXCEPT !.present = TRUE]

_ensure_inertial(link_el) ==
    IF link_el.inertial.present THEN link_el.inertial
    ELSE [NoInertialElement EXCEPT !.present = TRUE]

\* origin.set("xyz", ...); origin.set("rpy", ...): the position goes through _fmt,
\* the rotation is the one passed, which fix_inertias gives as (0.0, 0.0, 0.0)
_set_origin(element, xyz, rpy) ==
    [element EXCEPT !.origin =
        OriginElement(<<_fmt(Whole(xyz[1])).n, _fmt(Whole(xyz[2])).n, _fmt(Whole(xyz[3])).n>>,
                      rpy)]

_set_inertia(element, I) ==
    [element EXCEPT !.inertia =
        InertiaElement(<<_fmt(I[1][1]), _fmt(I[1][2]), _fmt(I[1][3]),
                         _fmt(I[2][2]), _fmt(I[2][3]), _fmt(I[3][3])>>)]

Reason(text, source, type) == [text |-> text, source |-> source, type |-> type]

Skip(name, reason) == [name |-> name, reason |-> reason]

\* the tensor that fix_inertias writes for the chosen geometry and the persisted mass
NewTensor(diag, rpy) ==
    _sanitize_inertia_matrix(
        _rotate_inertia(<<Whole(diag.moments[1].v), Whole(diag.moments[2].v),
                          Whole(diag.moments[3].v)>>, _rpy_to_matrix(rpy)),
        SanitizeTol)

\* one pass of the loop of fix_inertias over problems.items(): the outcome for the
\* entry and the tree after it
FixEntry(root, entry, prefer_collision) ==
    LET at == _find_link_element(root, entry.name)
        mass == _get_mass_from_link_element(root[at])
        source == _pick_geometry_source(prefer_collision, entry.link)
        diag == _primitive_inertia_diag(source.geometry, mass)
        untouched(reason) == [fixed |-> FALSE, reason |-> reason, root |-> root]
    IN  IF at = 0 THEN untouched(Reason("link element not found", "", ""))
        ELSE IF MassUnusable(mass)
             THEN untouched(Reason("missing or non-positive mass", "", ""))
        ELSE IF source.geometry = NoGeometry
             THEN untouched(Reason("no usable geometry (box/cylinder/sphere)", "", ""))
        ELSE IF diag.k = "none"
             THEN untouched(Reason("unsupported geometry type", source.label,
                                   source.geometry.type))
        ELSE LET inertial_el ==
                     _set_inertia(_set_origin(_ensure_inertial(root[at]), source.xyz,
                                              <<"zero", "zero", "zero">>),
                                  NewTensor(diag, source.rpy))
             IN  [fixed |-> TRUE,
                  reason |-> Reason("", "", ""),
                  root |-> [root EXCEPT ![at].inertial = inertial_el]]

(***************************************************************************)
(* Bounds and input sets                                                   *)
(***************************************************************************)
\* longest collision list
MaxCollisions == 2
\* largest box side, radius and length, in metres
MaxDim == 2

\* finite masses are multiples of 60 units: m/12, m/2 and 0.4*m are exact
MassGrid == 5 * 12

FiniteMasses == {Fin(k * MassGrid) : k \in {-100, 0, 99, 100, 500}}
Masses == FiniteMasses \cup {None, NaN, PosInf, NegInf}

\* tensor entries around 1e-12 (1), 1e-9 (1000), the triangle and ratio boundaries
DiagVals == {0, 1, 2, 999, 1000, 2000, 5000, 5001, 3 * 5000, 1000 * Tol, 1000 * Tol + 1}
CoupledVals == {0, 1000, 2000}
OffVals == {-2, -1, 1, 2, 1000}
PairVals == {999, 1000, 5000, 5001}

Diagonal(a, b, c) == <<a, 0, 0, b, 0, c>>

DiagonalTensors == {Diagonal(a, b, c) : a \in DiagVals, b \in DiagVals, c \in DiagVals}

CoupledTensors ==
    UNION {{<<a, o, 0, a, 0, c>>, <<a, 0, o, c, 0, a>>, <<c, 0, 0, a, o, a>>} :
           a \in CoupledVals, o \in OffVals, c \in CoupledVals}

\* ascending diagonals: the checks read the sorted eigenvalues only
PairTensors ==
    {Diagonal(t[1], t[2], t[3]) :
        t \in {x \in PairVals \X PairVals \X PairVals : x[1] <= x[2] /\ x[2] <= x[3]}}

Dims == 0..MaxDim

AllGeometries ==
    {Box(lx, ly, lz) : lx \in Dims, ly \in Dims, lz \in Dims}
    \cup {Cylinder(r, l) : r \in Dims, l \in Dims}
    \cup {Sphere(r) : r \in Dims}
    \cup {Geometry(t, NoSize, NoField, NoField) : t \in {"box", "cylinder", "sphere"}}
    \cup {Mesh, Unknown}

SomeGeometries == {Mesh, Geometry("box", NoSize, NoField, NoField),
                   Box(1, 1, 1), Cylinder(1, 2), Sphere(1)}

RECURSIVE ListsUpTo(_, _)
ListsUpTo(S, n) ==
    IF n = 0 THEN {<<>>}
    ELSE LET shorter == ListsUpTo(S, n - 1)
         IN  shorter \cup {Append(q, x) : q \in shorter, x \in S}

CollisionLists == ListsUpTo({Collision(g) : g \in SomeGeometries}, MaxCollisions)

\* links that vary the tensor and the mass
TensorLinks ==
    {Link("link", Inertial(m, t), <<>>) : m \in Masses, t \in DiagonalTensors \cup CoupledTensors}

\* links that vary the mass, the collision list and the tensor near the pair tolerance
GeometryLinks ==
    {Link("link", Inertial(m, t), c) : m \in Masses, t \in PairTensors, c \in CollisionLists}

\* links that vary the single collision's geometry and the mass
EstimatorLinks ==
    {Link("link", Inertial(m, Diagonal(1000, 1000, 1000)), <<Collision(g)>>) :
        m \in Masses, g \in AllGeometries}

MissingInertialLinks == {Link("link", NoInertial, c) : c \in CollisionLists}

\* links whose collision lists mix primitives of zero radius with usable ones
OrderLists ==
    ListsUpTo({Collision(g) : g \in {Cylinder(0, 1), Sphere(0), Box(1, 1, 1), Sphere(2)}},
              MaxCollisions)

OrderLinks ==
    {Link("link", Inertial(Fin(100 * MassGrid), Diagonal(t, t, t)), c) :
        t \in {1000, 5001}, c \in OrderLists}

Links ==
    TensorLinks \cup GeometryLinks \cup EstimatorLinks \cup MissingInertialLinks
    \cup OrderLinks

(***************************************************************************)
(* The state machine: a link is evaluated, or its estimators are run       *)
(***************************************************************************)
NoEstimates == [engine |-> NoEstimate, rewriter |-> NoEstimate, scene |-> NoEstimate]

\* links evaluated between two evaluations of the same link
OtherLinks ==
    {Link("other", NoInertial, <<>>),
     Link("other", Inertial(Fin(-MassGrid), Diagonal(0, 1000, 5000)), <<Collision(Box(1, 1, 1))>>)}

\* fix_inertias is not running
NotWritten == [written |-> FALSE, root |-> <<>>]
NotStopped == [text |-> "", details |-> <<>>]
NoFlags == [include_warnings |-> FALSE, include_triangle |-> FALSE, prefer_collision |-> FALSE]

Locals ==
    /\ model = <<>>
    /\ results = <<>>
    /\ problems = <<>>
    /\ tree = <<>>
    /\ todo = 0
    /\ fixed_links = <<>>
    /\ skipped = <<>>
    /\ stop = NotStopped
    /\ output = NotWritten

Init ==
    /\ link \in Links
    /\ report = <<>>
    /\ first = <<>>
    /\ est = NoEstimates
    /\ pc = "idle"
    /\ urdf = <<>>
    /\ flags = NoFlags
    /\ Locals
    /\ rpc = "unused"
    /\ TreeAtRest
    /\ SceneAtRest
    /\ CliAtRest

\* a call that kept the list of an earlier call
NewResults_Kept(previous) == previous

\* results: List[InertiaCheck] = [] at the start of every call
NewResults(previous) == <<>>

\* one call of evaluate_link_inertia; previous is what the last call returned
Call(previous, l) == NewResults(previous) \o evaluate_link_inertia(l)

\* evaluate_link_inertia(link)
Evaluate ==
    /\ pc = "idle"
    /\ report' = Call(report, link)
    /\ first' = report'
    /\ pc' = "evaluated"
    /\ UNCHANGED <<link, est>>
    /\ UNCHANGED <<rvars, xvars>>

\* evaluate_link_inertia of another link, between two evaluations of link
EvaluateOther ==
    /\ pc = "evaluated"
    /\ \E other \in OtherLinks : report' = Call(report, other)
    /\ pc' = "interleaved"
    /\ UNCHANGED <<link, first, est>>
    /\ UNCHANGED <<rvars, xvars>>

\* evaluate_link_inertia(link) a second time
EvaluateAgain ==
    /\ pc \in {"evaluated", "interleaved"}
    /\ report' = Call(report, link)
    /\ pc' = IF pc = "evaluated" THEN "again" ELSE "again_after_other"
    /\ UNCHANGED <<link, first, est>>
    /\ UNCHANGED <<rvars, xvars>>

\* the three copies of the estimator on the link's collisions and mass
Estimate ==
    /\ pc = "idle"
    /\ link.inertial.present
    /\ link.collisions # <<>>
    /\ est' = [engine |-> EngineEstimate(link),
               rewriter |-> RewriterEstimate(link),
               scene |-> SceneEstimate(link)]
    /\ pc' = "estimated"
    /\ UNCHANGED <<link, report, first>>
    /\ UNCHANGED <<rvars, xvars>>

\* the caller drops the results; the link is kept
Reset ==
    /\ pc # "idle"
    /\ report' = <<>>
    /\ first' = <<>>
    /\ est' = NoEstimates
    /\ pc' = "idle"
    /\ UNCHANGED link
    /\ UNCHANGED <<rvars, xvars>>

Next == Evaluate \/ EvaluateOther \/ EvaluateAgain \/ Estimate \/ Reset

Spec == Init /\ [][Next]_vars

(***************************************************************************)
(* Documents for fix_inertias                                              *)
(***************************************************************************)
\* most <link> elements in a document
MaxLinks == 2

Names == <<"a", "b", "c", "d">>

Attrs(t) == <<Whole(t[1]), Whole(t[2]), Whole(t[3]), Whole(t[4]), Whole(t[5]), Whole(t[6])>>

\* a mass that gives a box (1,1,1) the moments 1e-9: 100 steps of the grid
UnitMass == 100 * MassGrid
\* a mass of 12 units, used with boxes and cylinders: m/12 = 1 and m/2 = 6
SmallMass == MassGrid \div 5
\* a mass whose sphere of radius 2 has a moment of ten digits
LargeMass == 11000001 * MassGrid
\* a position of ten digits, in units of 1e-9 m
LongPosition == Pow10(SignificantDigits) + 234567891

GoodTensor == Diagonal(2 * Tol, 2 * Tol, 2 * Tol)
ZeroTensor == Diagonal(0, 0, 0)
TriangleTensor == Diagonal(5000, 5000, 3 * 5000)
HeavyTensor == Diagonal(6 * Tol, 6 * Tol, 6 * Tol)

Plain == NoOriginElement
Here == Origin
There == OriginAt(<<5, 0, LongPosition>>, <<"zero", "zero", "zero">>)
Turned == OriginElement(<<1, 2, 3>>, <<"quarter", "zero", "zero">>)

\* inertial elements: none, incomplete, unreadable, and complete ones whose report
\* passes, fails with errors, fails the triangle check only, fails with a warning only
InertialElements ==
    {NoInertialElement,
     InertialElement(AbsentMass, Plain, InertiaElement(Attrs(GoodTensor))),
     InertialElement(Unparsable, Plain, InertiaElement(Attrs(GoodTensor))),
     InertialElement(NoValue, Plain, InertiaElement(Attrs(GoodTensor))),
     InertialElement(Unparsable, Plain, NoInertiaElement),
     InertialElement(NoValue, Plain, NoInertiaElement),
     InertialElement(Fin(UnitMass), Turned, NoInertiaElement)}
    \cup {InertialElement(Fin(UnitMass), o, InertiaElement(Attrs(t))) :
            o \in {Plain, Turned},
            t \in {GoodTensor, ZeroTensor, TriangleTensor, HeavyTensor}}
    \cup {InertialElement(m, Turned, InertiaElement(Attrs(GoodTensor))) :
            m \in {Fin(0), Fin(-UnitMass), NaN, PosInf, NegInf}}

\* the visuals and collisions of a link: neither, one of them, both, with and
\* without a supported primitive in front
GeometryLists ==
    {<<v, c>> :
        v \in {<<>>, <<Visual(There, Box(2, 1, 1))>>, <<Visual(Here, Mesh)>>,
               <<Visual(There, Sphere(1)), Visual(Here, Box(1, 1, 1))>>},
        c \in {<<>>, <<CollisionAt(Here, Box(1, 1, 1))>>, <<CollisionAt(There, Mesh)>>,
               <<CollisionAt(Here, Cylinder(0, 1))>>,
               <<CollisionAt(Here, Unknown), CollisionAt(Here, Box(1, 1, 1))>>}}

Rotations ==
    {<<"zero", "zero", "zero">>, <<"acos(3/5)", "zero", "zero">>,
     <<"zero", "zero", "quarter">>, <<"quarter", "zero", "acos(3/5)">>,
     <<"acos(3/5)", "acos(3/5)", "zero">>, <<"zero", "acos(3/5)", "acos(3/5)">>}

\* <link> elements that vary the inertial element
SelectionElements ==
    {LinkElement("a", i, <<>>, <<CollisionAt(There, Box(1, 1, 1))>>) : i \in InertialElements}

\* <link> elements that vary the visuals and the collisions
GeometryElements ==
    {LinkElement("a", i, g[1], g[2]) :
        i \in {NoInertialElement,
               InertialElement(Fin(UnitMass), Turned, InertiaElement(Attrs(ZeroTensor))),
               InertialElement(NaN, Plain, InertiaElement(Attrs(GoodTensor)))},
        g \in GeometryLists}

\* <link> elements that vary the rotation of the chosen geometry
RotationElements ==
    {LinkElement("a", InertialElement(Fin(m), Plain, InertiaElement(Attrs(ZeroTensor))),
                 <<>>, <<CollisionAt(OriginAt(<<0, 0, 0>>, r), g)>>) :
        m \in {SmallMass, MassGrid, UnitMass}, r \in Rotations,
        g \in {Box(2, 1, 1), Cylinder(1, 2)}}

\* <link> elements whose moments and positions have more than nine digits
FormatElements ==
    {LinkElement("a", InertialElement(Fin(LargeMass), Plain, InertiaElement(Attrs(ZeroTensor))),
                 <<>>, <<CollisionAt(OriginAt(<<0, 0, 0>>, r), g)>>) :
        r \in {<<"zero", "zero", "zero">>, <<"zero", "zero", "quarter">>},
        g \in {Sphere(2), Sphere(1), Cylinder(1, 2)}}

\* <link> elements whose estimated moments all exceed 1e-9, a flat box among them
RepairElements ==
    {LinkElement("a", InertialElement(Fin(4 * UnitMass), Plain, InertiaElement(Attrs(ZeroTensor))),
                 <<>>, <<CollisionAt(OriginAt(<<0, 0, 0>>, r), g)>>) :
        r \in {<<"zero", "zero", "zero">>, <<"zero", "zero", "quarter">>},
        g \in {Box(2, 1, 1), Box(1, 1, 0), Cylinder(1, 2), Sphere(1)}}

Elements ==
    SelectionElements \cup GeometryElements \cup RotationElements \cup FormatElements
    \cup RepairElements

\* the <link> elements of the longer documents: one that passes, one that is
\* rewritten, one that is skipped for its mass, one without an inertial element
Fillers ==
    {LinkElement("a", InertialElement(Fin(UnitMass), Plain, InertiaElement(Attrs(GoodTensor))),
                 <<>>, <<CollisionAt(Here, Box(1, 1, 1))>>),
     LinkElement("a", InertialElement(Fin(UnitMass), Turned, InertiaElement(Attrs(ZeroTensor))),
                 <<>>, <<CollisionAt(There, Box(2, 1, 1))>>),
     LinkElement("a", InertialElement(NaN, Plain, InertiaElement(Attrs(GoodTensor))),
                 <<>>, <<>>),
     LinkElement("a", NoInertialElement, <<Visual(Here, Box(1, 1, 1))>>, <<>>)}

Named(element, name) == [element EXCEPT !.name = name]

\* documents of 2..n elements; the i-th name is one of the first i names
RECURSIVE Chains(_)
Chains(n) ==
    IF n = 1 THEN {<<f>> : f \in Fillers}
    ELSE LET shorter == Chains(n - 1)
         IN  shorter \cup
             {Append(d, Named(f, Names[k])) :
                 d \in {x \in shorter : Len(x) = n - 1}, f \in Fillers, k \in 1..n}

\* a document is one <link> element of any kind, or a chain
Documents(n) == {<<e>> : e \in Elements} \cup Chains(n)

Flags ==
    [include_warnings : BOOLEAN, include_triangle : BOOLEAN, prefer_collision : BOOLEAN]

(***************************************************************************)
(* fix_inertias as a state machine: load, collect, parse, one step per     *)
(* selected link, then stop or write                                       *)
(***************************************************************************)
RewriterInit ==
    /\ urdf \in Documents(MaxLinks)
    /\ flags \in Flags
    /\ Locals
    /\ rpc = "start"
    /\ link = Link("link", NoInertial, <<>>)
    /\ report = <<>>
    /\ first = <<>>
    /\ est = NoEstimates
    /\ pc = "unused"
    /\ TreeAtRest
    /\ SceneAtRest
    /\ CliAtRest

\* model = load_urdf(urdf_path): _parse_inertial raises on an unreadable mass
Load ==
    /\ rpc = "start"
    /\ IF LoadRaises(urdf)
       THEN /\ rpc' = "load_error"
            /\ UNCHANGED model
       ELSE /\ rpc' = "loaded"
            /\ model' = _parse_links(urdf)
    /\ UNCHANGED <<urdf, flags, results, problems, tree, todo, fixed_links, skipped,
                   stop, output>>
    /\ UNCHANGED <<evars, xvars>>

\* problems = _collect_problem_links(...); SystemExit if there is none
CollectProblems ==
    /\ rpc = "loaded"
    /\ results' = summarize_model_inertia(model)
    /\ problems' = _collect_problem_links(model, flags.include_warnings,
                                          flags.include_triangle)
    /\ IF problems' = <<>>
       THEN /\ rpc' = "stopped"
            /\ stop' = [text |-> "No links with failing checks at requested severities.",
                        details |-> <<>>]
       ELSE /\ rpc' = "collected"
            /\ UNCHANGED stop
    /\ UNCHANGED <<urdf, flags, model, tree, todo, fixed_links, skipped, output>>
    /\ UNCHANGED <<evars, xvars>>

\* tree = ET.parse(urdf_path); fixed_links = []; skipped = {}
ParseTree ==
    /\ rpc = "collected"
    /\ tree' = urdf
    /\ fixed_links' = <<>>
    /\ skipped' = <<>>
    /\ todo' = 1
    /\ rpc' = "loop"
    /\ UNCHANGED <<urdf, flags, model, results, problems, stop, output>>
    /\ UNCHANGED <<evars, xvars>>

\* one pass of the loop over problems.items()
FixLink ==
    /\ rpc = "loop"
    /\ todo <= Len(problems)
    /\ LET done == FixEntry(tree, problems[todo], flags.prefer_collision)
       IN  /\ tree' = done.root
           /\ IF done.fixed
              THEN /\ fixed_links' = Append(fixed_links, problems[todo].name)
                   /\ UNCHANGED skipped
              ELSE /\ skipped' = Append(skipped, Skip(problems[todo].name, done.reason))
                   /\ UNCHANGED fixed_links
    /\ todo' = todo + 1
    /\ UNCHANGED <<urdf, flags, model, results, problems, stop, output, rpc>>
    /\ UNCHANGED <<evars, xvars>>

\* a test that never stops the run
NothingFixed_Never(fixed) == FALSE

\* if not fixed_links
NothingFixed(fixed) == fixed = <<>>

\* after the loop: SystemExit if nothing was fixed, else tree.write(output_path)
Finish ==
    /\ rpc = "loop"
    /\ todo > Len(problems)
    /\ IF NothingFixed(fixed_links)
       THEN /\ rpc' = "stopped"
            /\ stop' = [text |-> "No links were updated. Reasons: ", details |-> skipped]
            /\ UNCHANGED output
       ELSE /\ rpc' = "written"
            /\ output' = [written |-> TRUE, root |-> tree]
            /\ UNCHANGED stop
    /\ UNCHANGED <<urdf, flags, model, results, problems, tree, todo, fixed_links, skipped>>
    /\ UNCHANGED <<evars, xvars>>

RewriterNext == Load \/ CollectProblems \/ ParseTree \/ FixLink \/ Finish

RewriterSpec == RewriterInit /\ [][RewriterNext]_vars

(***************************************************************************)
(* Reading a report                                                        *)
(***************************************************************************)
Evaluated == pc = "evaluated"
Estimated == pc = "estimated"
HasInertial == link.inertial.present

\* positions of the checks with this identifier
Positions(name) == {i \in DOMAIN report : report[i].check = name}
Count(name) == Cardinality(Positions(name))
Position(name) == CHOOSE i \in Positions(name) : TRUE
Check(name) == report[Position(name)]

TheMass == link.inertial.mass
TheEntries == link.inertial.inertia
\* the eigenvalues of the link's tensor, ascending
TheEigenvalues == eigvalsh(_build_inertia_matrix(TheEntries))

MassIsPositiveFinite == TheMass.k = "fin" /\ TheMass.v > 0

SeverityOf(passed, failing) == IF passed THEN "info" ELSE failing

(***************************************************************************)
(* C1: a link without an inertial record gets exactly one check,           *)
(* inertial_present, failed, with severity warning, and nothing else.      *)
(***************************************************************************)
Thm_C1 ==
    (Evaluated /\ ~HasInertial) =>
        /\ Len(report) = 1
        /\ report[1].check = "inertial_present"
        /\ report[1].passed = FALSE
        /\ report[1].severity = "warning"

\* a link without inertial but with a box collision is evaluated
Wit_C1 ==
    /\ Evaluated
    /\ ~HasInertial
    /\ link.collisions # <<>>
    /\ link.collisions[1].geometry = Box(1, 1, 1)
    /\ Len(report) = 1

(***************************************************************************)
(* C2 as stated: every report of a link with an inertial holds exactly one *)
(* mass_positive check, passing (info, with the mass) iff the mass is      *)
(* finite and > 0 and failing (error) otherwise, also for a missing, NaN   *)
(* or infinite mass, where it accompanies the failing mass_finite check.   *)
(***************************************************************************)
Orig_C2 ==
    (Evaluated /\ HasInertial) =>
        /\ Count("mass_positive") = 1
        /\ Check("mass_positive").passed = MassIsPositiveFinite
        /\ Check("mass_positive").severity = SeverityOf(MassIsPositiveFinite, "error")
        /\ Check("mass_positive").details = [mass |-> TheMass]
        /\ (~isfinite(TheMass)) =>
              (Count("mass_finite") = 1 /\ ~Check("mass_finite").passed)

(***************************************************************************)
(* C2 amended: the report of a link with an inertial starts with exactly   *)
(* one mass check.  For a finite mass it is mass_positive, passing (info,  *)
(* with the mass) iff mass > 0 and failing (error) iff mass <= 0, and no   *)
(* mass_finite check is emitted.  For a missing, NaN or infinite mass it   *)
(* is a failing mass_finite (error) and no mass_positive check is emitted. *)
(***************************************************************************)
Thm_C2 ==
    (Evaluated /\ HasInertial) =>
        /\ Count("mass_positive") + Count("mass_finite") = 1
        /\ report[1].check \in {"mass_positive", "mass_finite"}
        /\ report[1].details = [mass |-> TheMass]
        /\ isfinite(TheMass) =>
              /\ report[1].check = "mass_positive"
              /\ report[1].passed = (TheMass.v > 0)
              /\ report[1].severity = SeverityOf(TheMass.v > 0, "error")
        /\ (~isfinite(TheMass)) =>
              /\ report[1].check = "mass_finite"
              /\ report[1].passed = FALSE
              /\ report[1].severity = "error"

\* a NaN mass is evaluated: mass_finite fails and mass_positive is absent
Wit_C2 ==
    /\ Evaluated
    /\ HasInertial
    /\ TheMass = NaN
    /\ Count("mass_finite") = 1
    /\ Count("mass_positive") = 0

TensorCheckNames == <<"positive_definite", "triangle_inequality", "eigenvalue_ratio">>

\* the (identifier, passed, severity) of the tensor checks of a report, in order
RECURSIVE TensorVerdicts(_)
TensorVerdicts(r) ==
    IF r = <<>> THEN <<>>
    ELSE (IF \E n \in 1..3 : TensorCheckNames[n] = r[1].check
          THEN <<<<r[1].check, r[1].passed, r[1].severity>>>>
          ELSE <<>>) \o TensorVerdicts(Tail(r))

WithMass(l, m) == [l EXCEPT !.inertial.mass = m]

(***************************************************************************)
(* C3: whatever the mass, the report of a link with an inertial holds      *)
(* positive_definite, triangle_inequality and eigenvalue_ratio once each,  *)
(* in that order, and their passed and severity values are those of every  *)
(* link with the same tensor and collisions and another mass.              *)
(***************************************************************************)
Thm_C3 ==
    (Evaluated /\ HasInertial) =>
        /\ Len(TensorVerdicts(report)) = 3
        /\ \A n \in 1..3 : TensorVerdicts(report)[n][1] = TensorCheckNames[n]
        /\ \A m \in Masses :
              TensorVerdicts(evaluate_link_inertia(WithMass(link, m))) = TensorVerdicts(report)

\* mass -1 (scaled) with tensor diag above the tolerance: mass_positive fails,
\* positive_definite passes
Wit_C3 ==
    /\ Evaluated
    /\ HasInertial
    /\ TheMass.k = "fin" /\ TheMass.v < 0
    /\ Count("mass_positive") = 1 /\ ~Check("mass_positive").passed
    /\ Count("positive_definite") = 1 /\ Check("positive_definite").passed

(***************************************************************************)
(* C4: positive_definite passes iff every eigenvalue of the tensor is      *)
(* strictly greater than 1e-9; severity error when it fails, info when it  *)
(* passes.                                                                 *)
(***************************************************************************)
Thm_C4 ==
    (Evaluated /\ HasInertial) =>
        /\ Count("positive_definite") = 1
        /\ Check("positive_definite").passed = (\A i \in 1..3 : TheEigenvalues[i] > Tol)
        /\ Check("positive_definite").severity =
              SeverityOf(Check("positive_definite").passed, "error")

\* an eigenvalue equal to 1e-9, the others above it: the check fails
Wit_C4 ==
    /\ Evaluated
    /\ HasInertial
    /\ TheEigenvalues[1] = Tol
    /\ TheEigenvalues[2] > Tol
    /\ Count("positive_definite") = 1
    /\ ~Check("positive_definite").passed

TriangleHolds(e) ==
    /\ \A i \in 1..3 : ~(e[i] < Tol)
    /\ e[1] <= e[2] + e[3] + Tol
    /\ e[2] <= e[1] + e[3] + Tol
    /\ e[3] <= e[1] + e[2] + Tol

(***************************************************************************)
(* C5: triangle_inequality passes iff no eigenvalue is below 1e-9 and each *)
(* eigenvalue is at most the sum of the other two plus 1e-9; eigenvalues   *)
(* in proportion (1, 1, 3) well above the tolerance fail.                  *)
(***************************************************************************)
Thm_C5 ==
    (Evaluated /\ HasInertial) =>
        /\ Count("triangle_inequality") = 1
        /\ Check("triangle_inequality").passed = TriangleHolds(TheEigenvalues)
        /\ (TheEigenvalues = <<5000, 5000, 3 * 5000>>) => ~Check("triangle_inequality").passed
        /\ (TheEigenvalues[1] < Tol) => ~Check("triangle_inequality").passed

\* eigenvalues (1, 1, 3) * 5e-9: all above the tolerance, the check fails
Wit_C5 ==
    /\ Evaluated
    /\ HasInertial
    /\ TheEigenvalues = <<5000, 5000, 3 * 5000>>
    /\ ~Check("triangle_inequality").passed
    /\ Check("positive_definite").passed

FlooredMin == IF TheEigenvalues[1] >= Tol THEN TheEigenvalues[1] ELSE Tol

(***************************************************************************)
(* C6: eigenvalue_ratio reports ratio = max / max(min, 1e-9) and passes    *)
(* iff ratio <= 1000 (inclusive); severity warning when it fails, info     *)
(* when it passes.                                                         *)
(***************************************************************************)
Thm_C6 ==
    (Evaluated /\ HasInertial) =>
        /\ Count("eigenvalue_ratio") = 1
        /\ Check("eigenvalue_ratio").details.ratio = Quot(TheEigenvalues[3], FlooredMin)
        /\ Check("eigenvalue_ratio").passed = (TheEigenvalues[3] <= 1000 * FlooredMin)
        /\ Check("eigenvalue_ratio").severity =
              SeverityOf(Check("eigenvalue_ratio").passed, "warning")

\* smallest eigenvalue 1 and largest 1000 (in units of 1e-9): ratio exactly 1000 passes
Wit_C6 ==
    /\ Evaluated
    /\ HasInertial
    /\ TheEigenvalues[1] = Tol
    /\ TheEigenvalues[3] = 1000 * Tol
    /\ Check("eigenvalue_ratio").passed

SomeEntryAbove == \E i \in 1..6 : TheEntries[i] > EntryTol \/ TheEntries[i] < -EntryTol

(***************************************************************************)
(* C7: zero_mass_inertia is emitted iff the mass is exactly 0.0 and some   *)
(* tensor entry has absolute value above 1e-12; when emitted it is failed, *)
(* severity error, right after the mass check and before                   *)
(* positive_definite; it is never emitted as a passing check.              *)
(***************************************************************************)
Thm_C7 ==
    (Evaluated /\ HasInertial) =>
        /\ Count("zero_mass_inertia") = (IF TheMass = Fin(0) /\ SomeEntryAbove THEN 1 ELSE 0)
        /\ \A i \in Positions("zero_mass_inertia") :
              /\ report[i].passed = FALSE
              /\ report[i].severity = "error"
              /\ i = 2
              /\ report[1].check = "mass_positive"
              /\ report[3].check = "positive_definite"

\* mass 0 and a tensor whose only entry above 1e-12 is off the diagonal
Wit_C7 ==
    /\ Evaluated
    /\ HasInertial
    /\ TheMass = Fin(0)
    /\ TheEntries[1] = 0 /\ TheEntries[4] = 0 /\ TheEntries[6] = 0
    /\ Count("zero_mass_inertia") = 1

(***************************************************************************)
(* The formulas of the estimator as the claims state them                  *)
(***************************************************************************)
\* a box, cylinder or sphere whose required fields are given
HasFields(g) ==
    \/ g.type = "box" /\ g.size # NoSize
    \/ g.type = "cylinder" /\ g.radius # None /\ g.length # None
    \/ g.type = "sphere" /\ g.radius # None

\* ... and whose radius and length are not zero
Usable(g) ==
    \/ g.type = "box" /\ g.size # NoSize
    \/ g.type = "cylinder" /\ g.radius \notin {None, Fin(0)} /\ g.length \notin {None, Fin(0)}
    \/ g.type = "sphere" /\ g.radius \notin {None, Fin(0)}

\* x is (Ixx, Iyy, Izz) of geometry g with the finite mass m
IsMomentsOf(x, g, m) ==
    /\ \A i \in 1..3 : x[i].k = "fin"
    /\ g.type = "box" =>
          /\ 12 * x[1].v = m * (g.size[2] * g.size[2] + g.size[3] * g.size[3])
          /\ 12 * x[2].v = m * (g.size[1] * g.size[1] + g.size[3] * g.size[3])
          /\ 12 * x[3].v = m * (g.size[1] * g.size[1] + g.size[2] * g.size[2])
    /\ g.type = "cylinder" =>
          /\ 12 * x[1].v = m * (3 * g.radius.v * g.radius.v + g.length.v * g.length.v)
          /\ x[2] = x[1]
          /\ 2 * x[3].v = m * g.radius.v * g.radius.v
    /\ g.type = "sphere" =>
          /\ 5 * x[1].v = 2 * m * g.radius.v * g.radius.v
          /\ x[2] = x[1]
          /\ x[3] = x[1]

\* the moments of a usable geometry g with the finite mass m, ascending
SortedMomentsOf(g, m) ==
    LET sq(n) == n * n
        x == CASE g.type = "box" ->
                    <<(m * (sq(g.size[2]) + sq(g.size[3]))) \div 12,
                      (m * (sq(g.size[1]) + sq(g.size[3]))) \div 12,
                      (m * (sq(g.size[1]) + sq(g.size[2]))) \div 12>>
               [] g.type = "cylinder" ->
                    <<(m * (3 * sq(g.radius.v) + sq(g.length.v))) \div 12,
                      (m * (3 * sq(g.radius.v) + sq(g.length.v))) \div 12,
                      (m * sq(g.radius.v)) \div 2>>
               [] g.type = "sphere" ->
                    <<(2 * m * sq(g.radius.v)) \div 5,
                      (2 * m * sq(g.radius.v)) \div 5,
                      (2 * m * sq(g.radius.v)) \div 5>>
        s == Sort3(x[1], x[2], x[3])
    IN  <<Fin(s[1]), Fin(s[2]), Fin(s[3])>>

UsableCollisions == {i \in DOMAIN link.collisions : Usable(link.collisions[i].geometry)}
FirstUsable == CHOOSE i \in UsableCollisions : \A j \in UsableCollisions : i <= j

(***************************************************************************)
(* C8 as stated: geometry_consistency is in the report iff the mass is     *)
(* finite and > 0, some collision carries a supported primitive, and some  *)
(* positional pair of ascending actual and expected eigenvalues has both   *)
(* values above 1e-9; in every other case (mass missing, NaN, infinite or  *)
(* <= 0, no usable geometry, no valid pair) the check is omitted.          *)
(* Orig_C8 is the claim's "only if" for the mass and the geometry: a       *)
(* report holds the check at most once, and only for a finite mass > 0 and *)
(* a collision with a supported primitive.                                 *)
(***************************************************************************)
Orig_C8 ==
    (Evaluated /\ HasInertial) =>
        /\ Count("geometry_consistency") <= 1
        /\ Count("geometry_consistency") = 1 =>
              (MassIsPositiveFinite /\ UsableCollisions # {})

Geo == Check("geometry_consistency")

\* 0.2 <= actual / expected <= 5.0
RatioInBand(actual, expected) ==
    /\ expected.k = "fin"
    /\ expected.v <= 5 * actual
    /\ actual <= 5 * expected.v

PairsAbove ==
    {i \in 1..3 : /\ Geo.details.actual_eigenvalues[i] > Tol
                  /\ FloatLt(Fin(Tol), Geo.details.expected_eigenvalues[i])}

PairsAtLeast ==
    {i \in 1..3 : /\ Geo.details.actual_eigenvalues[i] >= Tol
                  /\ FloatLe(Fin(Tol), Geo.details.expected_eigenvalues[i])}

AllInBand(pairs) ==
    /\ pairs # {}
    /\ \A i \in pairs : RatioInBand(Geo.details.actual_eigenvalues[i],
                                    Geo.details.expected_eigenvalues[i])

\* the triples the check pairs are the link's eigenvalues and the estimator's moments
PairsTheRightTriples ==
    /\ Geo.details.actual_eigenvalues = TheEigenvalues
    /\ MassIsPositiveFinite =>
          Geo.details.expected_eigenvalues =
              SortedMomentsOf(link.collisions[FirstUsable].geometry, TheMass.v)

(***************************************************************************)
(* C9 as stated: an emitted geometry_consistency passes iff, over the      *)
(* positional pairs of ascending actual and expected eigenvalues where     *)
(* both values exceed 1e-9, the minimum ratio actual/expected is >= 0.2    *)
(* and the maximum is <= 5.0; severity warning when it fails, info when it *)
(* passes.                                                                 *)
(***************************************************************************)
Orig_C9 ==
    (Evaluated /\ HasInertial /\ Count("geometry_consistency") = 1 /\ PairsAbove # {}) =>
        /\ PairsTheRightTriples
        /\ Geo.passed = AllInBand(PairsAbove)
        /\ Geo.severity = SeverityOf(Geo.passed, "warning")

(***************************************************************************)
(* C9 amended: an emitted geometry_consistency passes iff, over the        *)
(* positional pairs of ascending actual and expected eigenvalues where     *)
(* both values are at least 1e-9 (a value equal to 1e-9 is paired), there  *)
(* is such a pair, the minimum ratio actual/expected is >= 0.2 and the     *)
(* maximum is <= 5.0; severity warning when it fails, info when it passes. *)
(***************************************************************************)
Thm_C9 ==
    (Evaluated /\ HasInertial /\ Count("geometry_consistency") = 1) =>
        /\ PairsTheRightTriples
        /\ Geo.passed = AllInBand(PairsAtLeast)
        /\ Geo.severity = SeverityOf(Geo.passed, "warning")

\* the smallest eigenvalue is exactly 1e-9 and its ratio to the expected one is
\* below 0.2, the other two pairs are in the band: the check fails
Wit_C9 ==
    /\ Evaluated
    /\ HasInertial
    /\ Count("geometry_consistency") = 1
    /\ MassIsPositiveFinite
    /\ TheEigenvalues[1] = Tol
    /\ ~RatioInBand(Geo.details.actual_eigenvalues[1], Geo.details.expected_eigenvalues[1])
    /\ \A i \in 2..3 : RatioInBand(Geo.details.actual_eigenvalues[i],
                                   Geo.details.expected_eigenvalues[i])
    /\ ~Geo.passed
    /\ Geo.severity = "warning"

FirstGeometry == link.collisions[1].geometry

CopiesReturn(g, m) ==
    \A copy \in {est.engine, est.rewriter, est.scene} :
        /\ copy.k = "some"
        /\ IsMomentsOf(copy.moments, g, m)

(***************************************************************************)
(* C10 as stated: for a finite mass > 0 the estimator returns              *)
(* box (lx,ly,lz) -> (m(ly^2+lz^2)/12, m(lx^2+lz^2)/12, m(lx^2+ly^2)/12),  *)
(* cylinder (r,L) -> (m(3r^2+L^2)/12, m(3r^2+L^2)/12, m r^2/2),            *)
(* sphere (r) -> 0.4 m r^2 three times, and the copies in the check        *)
(* engine, the rewriter and the scene builder return the same moments.     *)
(***************************************************************************)
Orig_C10 ==
    (Estimated /\ MassIsPositiveFinite /\ HasFields(FirstGeometry)) =>
        CopiesReturn(FirstGeometry, TheMass.v)

(***************************************************************************)
(* C10 amended: for a finite mass > 0 the estimator returns the stated     *)
(* moments for a box, for a cylinder whose radius and length are not zero  *)
(* and for a sphere whose radius is not zero, e.g. a box (1,1,1) gives     *)
(* m/6 three times, and the three copies return the same moments; for a   *)
(* cylinder or sphere with a zero radius or length, given alone, every     *)
(* copy returns no estimate.                                               *)
(***************************************************************************)
Thm_C10 ==
    (Estimated /\ MassIsPositiveFinite /\ HasFields(FirstGeometry)) =>
        /\ Usable(FirstGeometry) => CopiesReturn(FirstGeometry, TheMass.v)
        /\ (Usable(FirstGeometry) /\ FirstGeometry = Box(1, 1, 1)) =>
              \A i \in 1..3 : 6 * est.engine.moments[i].v = TheMass.v
        /\ (~Usable(FirstGeometry) /\ Len(link.collisions) = 1) =>
              \A copy \in {est.engine, est.rewriter, est.scene} : copy = NoEstimate

\* a box with three different sides and a positive mass has been estimated
Wit_C10 ==
    /\ Estimated
    /\ MassIsPositiveFinite
    /\ FirstGeometry = Box(0, 1, 2)
    /\ est.rewriter.k = "some"
    /\ est.engine.moments[1] # est.engine.moments[2]
    /\ est.engine.moments[2] # est.engine.moments[3]

(***************************************************************************)
(* C11 as stated: the estimator yields no estimate, never an exception,    *)
(* for a mesh or unknown geometry, for a primitive whose fields are        *)
(* absent and for every mass that is <= 0, NaN or infinite; it yields      *)
(* moments only for a box, cylinder or sphere with a finite mass > 0.      *)
(* The copy of the check engine yields NaN or infinite moments for a NaN   *)
(* or +infinite mass.                                                      *)
(***************************************************************************)
Orig_C11 ==
    (Estimated /\ TheMass # None) =>
        \A copy \in {est.engine, est.rewriter, est.scene} :
            /\ copy # Raised
            /\ copy.k = "some" =>
                  /\ MassIsPositiveFinite
                  /\ \E i \in DOMAIN link.collisions : HasFields(link.collisions[i].geometry)
            /\ ~MassIsPositiveFinite => copy = NoEstimate

Loaded == rpc \notin {"unused", "start", "load_error"}
Collected == rpc \in {"collected", "loop", "stopped", "written"}

NamesOf(links) == {links[i].name : i \in DOMAIN links}
DistinctNames(links) == \A i, j \in DOMAIN links : links[i].name = links[j].name => i = j

Selected(name) == \E i \in DOMAIN problems : problems[i].name = name

\* the names that _collect_problem_links selects under the given flags
SelectedUnder(include_warnings, include_triangle) ==
    NamesOf(_collect_problem_links(model, include_warnings, include_triangle))

FailingChecks(l) == {c \in {evaluate_link_inertia(l)[i] : i \in DOMAIN evaluate_link_inertia(l)} : ~c.passed}

(***************************************************************************)
(* C13: the mapping of summarize_model_inertia has exactly the names of    *)
(* the links as its keys and, when the names are pairwise distinct, maps   *)
(* each name to the check sequence evaluate_link_inertia returns for that  *)
(* link, with no check added, dropped or moved.                            *)
(***************************************************************************)
Thm_C13 ==
    Collected =>
        /\ DOMAIN results = NamesOf(model)
        /\ DistinctNames(model) =>
              \A i \in DOMAIN model : results[model[i].name] = evaluate_link_inertia(model[i])

\* two links with different names and different reports have been summarised
Wit_C13 ==
    /\ Collected
    /\ Len(model) = 2
    /\ DistinctNames(model)
    /\ Len(results[model[1].name]) > 1
    /\ Len(results[model[2].name]) = 1
    /\ \E i \in DOMAIN results[model[1].name] : results[model[1].name][i].passed

(***************************************************************************)
(* C14: a link is selected iff it has a failing check that survives the    *)
(* filter (severity error, or include_warnings; not triangle_inequality,   *)
(* or include_triangle); the selection with a flag off is a subset of the  *)
(* selection with it on; a link whose failing checks are all warnings is   *)
(* selected only with include_warnings.  Names are pairwise distinct.      *)
(***************************************************************************)
Thm_C14 ==
    (Collected /\ DistinctNames(model)) =>
        /\ \A i \in DOMAIN model :
              Selected(model[i].name) <=>
                 \E c \in FailingChecks(model[i]) :
                    /\ c.severity = "error" \/ flags.include_warnings
                    /\ c.check # "triangle_inequality" \/ flags.include_triangle
        /\ \A t \in BOOLEAN : SelectedUnder(FALSE, t) \subseteq SelectedUnder(TRUE, t)
        /\ \A w \in BOOLEAN : SelectedUnder(w, FALSE) \subseteq SelectedUnder(w, TRUE)
        /\ \A i \in DOMAIN model :
              (Selected(model[i].name)
                  /\ \A c \in FailingChecks(model[i]) : c.severity = "warning")
                 => flags.include_warnings

\* without include_warnings a link without an inertial is left out and a link with
\* an error is selected
Wit_C14 ==
    /\ rpc = "collected"
    /\ ~flags.include_warnings
    /\ Len(model) = 2
    /\ DistinctNames(model)
    /\ ~model[1].inertial.present
    /\ ~Selected(model[1].name)
    /\ Selected(model[2].name)

(***************************************************************************)
(* The outcome of the loop for the selected links                          *)
(***************************************************************************)
\* the entries of problems that the loop has been through
Processed == 1..(todo - 1)

Fixed(name) == \E k \in DOMAIN fixed_links : fixed_links[k] = name
Skipped(name) == \E k \in DOMAIN skipped : skipped[k].name = name
ReasonOf(name) == (CHOOSE k \in DOMAIN skipped : skipped[k].name = name)
ReasonText(name) == skipped[ReasonOf(name)].reason.text

\* the <link> element of this name, for pairwise distinct names
ElementOf(root, name) == root[CHOOSE k \in DOMAIN root : root[k].name = name]

\* the persisted mass is a number that is finite and > 0
ValidMass(element) ==
    /\ element.inertial.present
    /\ element.inertial.mass.k = "fin"
    /\ element.inertial.mass.v > 0

NoGeometryText == "no usable geometry (box/cylinder/sphere)"
UnsupportedText == "unsupported geometry type"
MassText == "missing or non-positive mass"

\* some visual or collision of the link carries a box, cylinder or sphere with its fields
YieldsPrimitive(l) ==
    \/ \E k \in DOMAIN l.collisions : HasFields(l.collisions[k].geometry)
    \/ \E k \in DOMAIN l.visuals : HasFields(l.visuals[k].geometry)

\* the list the preference names, and the other one
PreferredList(l) == IF flags.prefer_collision THEN l.collisions ELSE l.visuals
OtherList(l) == IF flags.prefer_collision THEN l.visuals ELSE l.collisions
PreferredLabel == IF flags.prefer_collision THEN "collision" ELSE "visual"
OtherLabel == IF flags.prefer_collision THEN "visual" ELSE "collision"
ChosenList(l) == IF PreferredList(l) # <<>> THEN PreferredList(l) ELSE OtherList(l)
ChosenLabel(l) == IF PreferredList(l) # <<>> THEN PreferredLabel ELSE OtherLabel

(***************************************************************************)
(* C15 as stated: a selected link with a valid persisted mass is skipped   *)
(* for its geometry only if neither list holds a supported primitive, and  *)
(* is updated if either list holds one.                                    *)
(***************************************************************************)
Orig_C15 ==
    DistinctNames(model) =>
        \A i \in Processed :
            ValidMass(ElementOf(urdf, problems[i].name)) =>
                /\ Skipped(problems[i].name) => ~YieldsPrimitive(problems[i].link)
                /\ YieldsPrimitive(problems[i].link) => Fixed(problems[i].name)

(***************************************************************************)
(* C15 amended: a selected link with a valid persisted mass is updated iff *)
(* the first entry of the preferred list, or of the other list when the    *)
(* preferred one is empty, is a box, a cylinder with non-zero radius and   *)
(* length or a sphere with non-zero radius; otherwise it is skipped, with  *)
(* "no usable geometry" when both lists are empty and "unsupported         *)
(* geometry type" when the chosen entry is something else.  Later entries  *)
(* and the other list are not consulted.                                   *)
(***************************************************************************)
Thm_C15 ==
    DistinctNames(model) =>
        \A i \in Processed :
            LET name == problems[i].name
                l == problems[i].link
            IN  ValidMass(ElementOf(urdf, name)) =>
                    /\ Fixed(name) <=>
                          (ChosenList(l) # <<>> /\ Usable(ChosenList(l)[1].geometry))
                    /\ ~Fixed(name) =>
                          /\ Skipped(name)
                          /\ ReasonText(name) =
                                IF ChosenList(l) = <<>> THEN NoGeometryText ELSE UnsupportedText

\* the collision is preferred and is a mesh, the visual is a box: the link is skipped
Wit_C15 ==
    /\ DistinctNames(model)
    /\ flags.prefer_collision
    /\ \E i \in Processed :
          /\ ValidMass(ElementOf(urdf, problems[i].name))
          /\ problems[i].link.collisions # <<>>
          /\ problems[i].link.collisions[1].geometry = Mesh
          /\ problems[i].link.visuals # <<>>
          /\ problems[i].link.visuals[1].geometry = Box(2, 1, 1)
          /\ Skipped(problems[i].name)
          /\ ReasonText(problems[i].name) = UnsupportedText

(***************************************************************************)
(* C16: for a selected link with a valid persisted mass the geometry       *)
(* source follows the preference: the first collision with                 *)
(* prefer-collision, the first visual only when there is no collision;     *)
(* the first visual with prefer-visual, the first collision only when      *)
(* there is no visual; with both lists empty the link is skipped with the  *)
(* reason "no usable geometry".  The source shows in the skip reason       *)
(* (label and type) or in the origin and tensor written for the link.      *)
(***************************************************************************)
Thm_C16 ==
    DistinctNames(model) =>
        \A i \in Processed :
            LET name == problems[i].name
                l == problems[i].link
                mass == ElementOf(urdf, name).inertial.mass
                first_collision == l.collisions[1]
                first_visual == l.visuals[1]
                from_collision ==
                    IF flags.prefer_collision THEN l.collisions # <<>>
                    ELSE l.visuals = <<>> /\ l.collisions # <<>>
                from_visual ==
                    IF flags.prefer_collision THEN l.collisions = <<>> /\ l.visuals # <<>>
                    ELSE l.visuals # <<>>
                FromSource(label, geometry, origin) ==
                    /\ Skipped(name) =>
                          /\ skipped[ReasonOf(name)].reason.source = label
                          /\ skipped[ReasonOf(name)].reason.type = geometry.type
                    /\ Fixed(name) =>
                          LET written == ElementOf(tree, name).inertial
                              wanted == NewTensor(_primitive_inertia_diag(geometry, mass),
                                                  origin.rpy)
                          IN  /\ \A k \in 1..3 : written.origin.xyz[k] = _fmt(Whole(origin.xyz[k])).n
                              /\ written.inertia.attrs[1] = _fmt(wanted[1][1])
                              /\ written.inertia.attrs[4] = _fmt(wanted[2][2])
                              /\ written.inertia.attrs[6] = _fmt(wanted[3][3])
            IN  ValidMass(ElementOf(urdf, name)) =>
                    /\ from_collision =>
                          FromSource("collision", first_collision.geometry, first_collision.origin)
                    /\ from_visual =>
                          FromSource("visual", first_visual.geometry, first_visual.origin)
                    /\ (l.collisions = <<>> /\ l.visuals = <<>>) =>
                          (Skipped(name) /\ ReasonText(name) = NoGeometryText)

\* the collision is preferred but missing: the link is rewritten from its first visual
Wit_C16 ==
    /\ DistinctNames(model)
    /\ flags.prefer_collision
    /\ \E i \in Processed :
          /\ problems[i].link.collisions = <<>>
          /\ problems[i].link.visuals # <<>>
          /\ problems[i].link.visuals[1].geometry = Box(2, 1, 1)
          /\ Fixed(problems[i].name)
          /\ ElementOf(tree, problems[i].name).inertial.origin.xyz[1] = 5

(***************************************************************************)
(* C17: a selected link whose persisted mass is missing, unparsable, <= 0, *)
(* NaN or infinite is recorded in skipped with the reason "missing or      *)
(* non-positive mass", is never in the updated set, and its element stays  *)
(* as it was read, in the tree and in the written document.                *)
(***************************************************************************)
Thm_C17 ==
    DistinctNames(model) =>
        \A i \in Processed :
            LET name == problems[i].name
            IN  ~ValidMass(ElementOf(urdf, name)) =>
                    /\ Skipped(name)
                    /\ ReasonText(name) = MassText
                    /\ ~Fixed(name)
                    /\ ElementOf(tree, name) = ElementOf(urdf, name)
                    /\ output.written => ElementOf(output.root, name) = ElementOf(urdf, name)

\* a document is written in which one link was updated and a link with a NaN mass
\* was skipped
Wit_C17 ==
    /\ rpc = "written"
    /\ DistinctNames(model)
    /\ \E i \in Processed :
          /\ ElementOf(urdf, problems[i].name).inertial.mass = NaN
          /\ Skipped(problems[i].name)
    /\ fixed_links # <<>>

(***************************************************************************)
(* C18: fix_inertias writes the output iff at least one link was updated.  *)
(* With no link selected it stops with a message before the document is    *)
(* parsed for editing; with every selected link skipped it stops with "No  *)
(* links were updated" and every skipped link with its reason; in both     *)
(* cases nothing is written.  The write is a step taken only after the     *)
(* loop has been through every selected link.                              *)
(***************************************************************************)
Ended == rpc \in {"load_error", "stopped", "written"}

WriteOutcome ==
    /\ output.written <=> rpc = "written"
    /\ Ended => (output.written <=> fixed_links # <<>>)
    /\ output.written => (output.root = tree /\ todo > Len(problems))
    /\ (rpc = "stopped" /\ problems = <<>>) =>
          /\ tree = <<>>
          /\ todo = 0
          /\ stop.text = "No links with failing checks at requested severities."
    /\ (rpc = "stopped" /\ problems # <<>>) =>
          /\ todo > Len(problems)
          /\ stop.text = "No links were updated. Reasons: "
          /\ Len(stop.details) = Len(problems)
          /\ \A i \in DOMAIN problems :
                \E k \in DOMAIN stop.details :
                    /\ stop.details[k].name = problems[i].name
                    /\ stop.details[k].reason.text \in
                          {"link element not found", MassText, NoGeometryText, UnsupportedText}

WriteStep ==
    (output' # output) =>
        /\ rpc = "loop"
        /\ todo > Len(problems)
        /\ fixed_links # <<>>
        /\ output'.root = tree

Thm_C18 == []WriteOutcome /\ [][WriteStep]_vars

\* two links were selected and both were skipped: the run stops and writes nothing
Wit_C18 ==
    /\ rpc = "stopped"
    /\ Len(problems) = 2
    /\ Len(stop.details) = 2
    /\ ~output.written

(***************************************************************************)
(* The elements of the tree against the elements read                      *)
(***************************************************************************)
\* the origin fix_inertias chose for the k-th link of the model
ChosenOrigin(k) == ChosenList(model[k])[1].origin

ZeroRotation == <<"zero", "zero", "zero">>

\* the element differs from the one read in its inertial origin and inertia only
OnlyOriginAndInertiaChanged(k) ==
    /\ tree[k].name = urdf[k].name
    /\ tree[k].visuals = urdf[k].visuals
    /\ tree[k].collisions = urdf[k].collisions
    /\ tree[k].inertial.present
    /\ urdf[k].inertial.present
    /\ tree[k].inertial.mass = urdf[k].inertial.mass
    /\ tree[k].inertial.origin.present
    /\ tree[k].inertial.origin.rpy = ZeroRotation
    /\ tree[k].inertial.inertia.present
    /\ Len(tree[k].inertial.inertia.attrs) = 6

(***************************************************************************)
(* C19 as stated: an updated link keeps everything but its six inertia     *)
(* attributes and its inertial origin, which becomes the position of the   *)
(* chosen geometry's origin with rotation 0 0 0; its mass is unchanged;    *)
(* the element of every other link is unchanged in the written document.   *)
(***************************************************************************)
Orig_C19 ==
    DistinctNames(model) =>
        \A k \in DOMAIN tree :
            IF Fixed(urdf[k].name)
            THEN /\ OnlyOriginAndInertiaChanged(k)
                 /\ tree[k].inertial.origin.xyz = ChosenOrigin(k).xyz
            ELSE tree[k] = urdf[k]

(***************************************************************************)
(* C19 amended: as above, with the position written as the chosen          *)
(* origin's position rounded to 9 significant digits, component by         *)
(* component; the written document is the tree so described.               *)
(***************************************************************************)
Thm_C19 ==
    DistinctNames(model) =>
        /\ \A k \in DOMAIN tree :
              IF Fixed(urdf[k].name)
              THEN /\ OnlyOriginAndInertiaChanged(k)
                   /\ \A i \in 1..3 :
                         tree[k].inertial.origin.xyz[i] = _fmt(Whole(ChosenOrigin(k).xyz[i])).n
              ELSE tree[k] = urdf[k]
        /\ output.written => output.root = tree

\* a document is written with a link left as read and an updated link whose inertial
\* origin was rotated and is now at the rounded position of its collision, unrotated
Wit_C19 ==
    /\ rpc = "written"
    /\ DistinctNames(model)
    /\ \E k \in DOMAIN tree :
          /\ Fixed(urdf[k].name)
          /\ urdf[k].inertial.origin = Turned
          /\ ChosenOrigin(k).xyz[3] = LongPosition
          /\ output.root[k].inertial.origin.xyz = <<5, 0, LongPosition - 1>>
          /\ output.root[k].inertial.origin.rpy = ZeroRotation
    /\ \E j \in DOMAIN tree : ~Fixed(urdf[j].name) /\ output.root[j] = urdf[j]

(***************************************************************************)
(* The tensor of a rotated primitive, in closed form                       *)
(***************************************************************************)
\* (Ixx, Iyy, Izz) of a usable primitive g with a mass m that 12, 2 and 5 divide
ExactMoments(g, m) ==
    LET sq(n) == n * n
    IN  CASE g.type = "box" ->
                <<Whole((m \div 12) * (sq(g.size[2]) + sq(g.size[3]))),
                  Whole((m \div 12) * (sq(g.size[1]) + sq(g.size[3]))),
                  Whole((m \div 12) * (sq(g.size[1]) + sq(g.size[2])))>>
          [] g.type = "cylinder" ->
                <<Whole((m \div 12) * (3 * sq(g.radius.v) + sq(g.length.v))),
                  Whole((m \div 12) * (3 * sq(g.radius.v) + sq(g.length.v))),
                  Whole((m \div 2) * sq(g.radius.v))>>
          [] g.type = "sphere" ->
                <<Whole((m \div 5) * (2 * sq(g.radius.v))),
                  Whole((m \div 5) * (2 * sq(g.radius.v))),
                  Whole((m \div 5) * (2 * sq(g.radius.v)))>>

\* the entries of Rz(yaw) * Ry(pitch) * Rx(roll), written out
RzRyRx(rpy) ==
    LET cr == cos(rpy[1])
        sr == sin(rpy[1])
        cp == cos(rpy[2])
        sp == sin(rpy[2])
        cy == cos(rpy[3])
        sy == sin(rpy[3])
        P3(x, y, z) == RatMul(RatMul(x, y), z)
    IN  <<<<RatMul(cy, cp),
            RatAdd(P3(cy, sp, sr), RatNeg(RatMul(sy, cr))),
            RatAdd(P3(cy, sp, cr), RatMul(sy, sr))>>,
          <<RatMul(sy, cp),
            RatAdd(P3(sy, sp, sr), RatMul(cy, cr)),
            RatAdd(P3(sy, sp, cr), RatNeg(RatMul(cy, sr)))>>,
          <<RatNeg(sp), RatMul(cp, sr), RatMul(cp, cr)>>>>

\* entry (i, j) of R * diag(d) * R^T
Rotated(R, d, i, j) ==
    RatAdd(RatAdd(RatMul(RatMul(R[i][1], d[1]), R[j][1]),
                  RatMul(RatMul(R[i][2], d[2]), R[j][2])),
           RatMul(RatMul(R[i][3], d[3]), R[j][3]))

\* ... with an entry of absolute value below 1e-12 replaced by 0
Sanitized(R, d, i, j) ==
    IF RatAbsBelow(Rotated(R, d, i, j), SanitizeTol) THEN Whole(0) ELSE Rotated(R, d, i, j)

\* ixx, ixy, ixz, iyy, iyz, izz
SixEntries == <<<<1, 1>>, <<1, 2>>, <<1, 3>>, <<2, 2>>, <<2, 3>>, <<3, 3>>>>

Updated(k) == k \in DOMAIN tree /\ Fixed(urdf[k].name)
ChosenGeometry(k) == ChosenList(model[k])[1].geometry
PersistedMass(k) == urdf[k].inertial.mass.v
Persisted(k) == tree[k].inertial.inertia.attrs

(***************************************************************************)
(* C20 as stated: the six values persisted for an updated link are the     *)
(* entries of sanitize(R * diag(moments) * R^T) with R = Rz * Ry * Rx of   *)
(* the chosen origin, with the entries below 1e-12 in absolute value set   *)
(* to 0; with an identity rotation they are the estimator's moments on the *)
(* diagonal and 0 elsewhere.                                               *)
(***************************************************************************)
Orig_C20 ==
    DistinctNames(model) =>
        \A k \in DOMAIN tree :
            Updated(k) =>
                LET d == ExactMoments(ChosenGeometry(k), PersistedMass(k))
                    R == RzRyRx(ChosenOrigin(k).rpy)
                IN  \A e \in 1..6 :
                        Persisted(k)[e] = Sanitized(R, d, SixEntries[e][1], SixEntries[e][2])

(***************************************************************************)
(* C20 amended: the six values persisted for an updated link are the       *)
(* entries of sanitize(R * diag(moments) * R^T), each rounded to 9         *)
(* significant digits, with R = Rz(yaw) * Ry(pitch) * Rx(roll) of the      *)
(* chosen origin and the moments of the chosen primitive for the persisted *)
(* mass; the matrix is symmetric and its entries below 1e-12 in absolute   *)
(* value are 0.  With an identity rotation the persisted tensor is         *)
(* diagonal and carries the rounded moments: a box (2,1,1) of mass m gets  *)
(* Ixx = 2m/12 and Iyy = Izz = 5m/12 (10/12 and 25/12 for m = 5).          *)
(***************************************************************************)
Thm_C20 ==
    DistinctNames(model) =>
        \A k \in DOMAIN tree :
            Updated(k) =>
                LET g == ChosenGeometry(k)
                    m == PersistedMass(k)
                    d == ExactMoments(g, m)
                    rpy == ChosenOrigin(k).rpy
                    R == RzRyRx(rpy)
                    code == NewTensor(_primitive_inertia_diag(g, Fin(m)), rpy)
                IN  /\ \A e \in 1..6 :
                          Persisted(k)[e] =
                              _fmt(Sanitized(R, d, SixEntries[e][1], SixEntries[e][2]))
                    /\ \A i, j \in 1..3 :
                          /\ code[i][j] = code[j][i]
                          /\ code[i][j] # Whole(0) => ~RatAbsBelow(code[i][j], SanitizeTol)
                    /\ rpy = ZeroRotation =>
                          Persisted(k) = <<_fmt(d[1]), Whole(0), Whole(0),
                                           _fmt(d[2]), Whole(0), _fmt(d[3])>>
                    /\ (rpy = ZeroRotation /\ g = Box(2, 1, 1)) =>
                          /\ RatMul(Whole(12), Persisted(k)[1]) = Whole(2 * m)
                          /\ RatMul(Whole(12), Persisted(k)[4]) = Whole(5 * m)
                          /\ Persisted(k)[6] = Persisted(k)[4]

\* an updated link whose geometry is turned about two axes, with a product of inertia
\* that is not 0; and one whose product of inertia was below the tolerance and is 0
Wit_C20 ==
    /\ DistinctNames(model)
    /\ \E k \in DOMAIN tree :
          /\ Updated(k)
          /\ ChosenOrigin(k).rpy = <<"quarter", "zero", "acos(3/5)">>
          /\ ChosenGeometry(k) = Box(2, 1, 1)
          /\ Persisted(k)[2] # Whole(0)

\* a product of inertia of 0.48e-12 is written as 0
Wit_C20_Zeroed ==
    /\ DistinctNames(model)
    /\ \E k \in DOMAIN tree :
          /\ Updated(k)
          /\ PersistedMass(k) = SmallMass
          /\ ChosenGeometry(k) = Cylinder(1, 2)
          /\ ChosenOrigin(k).rpy = <<"acos(3/5)", "zero", "zero">>
          /\ Rotated(RzRyRx(ChosenOrigin(k).rpy), ExactMoments(ChosenGeometry(k), SmallMass),
                     2, 3) # Whole(0)
          /\ Persisted(k)[5] = Whole(0)

(***************************************************************************)
(* The report against the report of the link with a shorter collision list *)
(***************************************************************************)
FieldedCollisions == {i \in DOMAIN link.collisions : HasFields(link.collisions[i].geometry)}
FirstFielded == CHOOSE i \in FieldedCollisions : \A j \in FieldedCollisions : i <= j

\* the link with its collisions cut after the n-th
CutAfter(n) == [link EXCEPT !.collisions = SubSeq(link.collisions, 1, n)]

\* the link with the n-th collision alone
Only(n) == [link EXCEPT !.collisions = <<link.collisions[n]>>]

(***************************************************************************)
(* C25 as stated: the expected moments come from the first collision that  *)
(* carries a box, cylinder or sphere with its required fields; the entries *)
(* after it never influence the report.                                    *)
(***************************************************************************)
Orig_C25 ==
    (Evaluated /\ HasInertial /\ FieldedCollisions # {}) =>
        report = evaluate_link_inertia(CutAfter(FirstFielded))

(***************************************************************************)
(* C25 amended: the expected moments come from the first collision, in     *)
(* sequence order, that carries a box, a cylinder with non-zero radius and *)
(* length or a sphere with non-zero radius.  Mesh and unknown entries and  *)
(* primitives with a zero radius or length before it are passed over, and  *)
(* the report equals the report of the link with that collision alone:     *)
(* the entries after it change nothing.  With no such collision there is   *)
(* no geometry_consistency check.                                          *)
(***************************************************************************)
Thm_C25 ==
    (Evaluated /\ HasInertial) =>
        IF UsableCollisions = {} THEN Count("geometry_consistency") = 0
        ELSE /\ report = evaluate_link_inertia(Only(FirstUsable))
             /\ report = evaluate_link_inertia(CutAfter(FirstUsable))
             /\ (Count("geometry_consistency") = 1 /\ MassIsPositiveFinite) =>
                   Geo.details.expected_eigenvalues =
                       SortedMomentsOf(link.collisions[FirstUsable].geometry, TheMass.v)

\* a box followed by a sphere of another size: the report carries the box's moments
Wit_C25 ==
    /\ Evaluated
    /\ HasInertial
    /\ MassIsPositiveFinite
    /\ link.collisions = <<Collision(Box(1, 1, 1)), Collision(Sphere(2))>>
    /\ Count("geometry_consistency") = 1
    /\ Geo.passed
    /\ Geo.details.expected_eigenvalues = SortedMomentsOf(Box(1, 1, 1), TheMass.v)
    /\ Geo.details.expected_eigenvalues # SortedMomentsOf(Sphere(2), TheMass.v)

(***************************************************************************)
(* C26: in every report a check has passed = true iff its severity is      *)
(* info, and a failing check carries the severity of its identifier:       *)
(* warning for inertial_present, eigenvalue_ratio and geometry_consistency *)
(* and error for mass_finite, mass_positive, zero_mass_inertia,            *)
(* positive_definite and triangle_inequality.                              *)
(***************************************************************************)
WarningChecks == {"inertial_present", "eigenvalue_ratio", "geometry_consistency"}
ErrorChecks == {"mass_finite", "mass_positive", "zero_mass_inertia", "positive_definite",
                "triangle_inequality"}

Thm_C26 ==
    Evaluated =>
        \A i \in DOMAIN report :
            /\ report[i].check \in WarningChecks \cup ErrorChecks
            /\ report[i].passed <=> report[i].severity = "info"
            /\ ~report[i].passed =>
                  report[i].severity =
                      IF report[i].check \in WarningChecks THEN "warning" ELSE "error"

\* one report with a passing check, a failing error and a failing warning
Wit_C26 ==
    /\ Evaluated
    /\ HasInertial
    /\ Count("mass_positive") = 1
    /\ Check("mass_positive").passed
    /\ Check("mass_positive").severity = "info"
    /\ ~Check("positive_definite").passed
    /\ Check("positive_definite").severity = "error"
    /\ ~Check("eigenvalue_ratio").passed
    /\ Check("eigenvalue_ratio").severity = "warning"

(***************************************************************************)
(* The details of a check                                                  *)
(***************************************************************************)
Keys(details) == DOMAIN details

\* the details carry the evidence of the decision of this check
CarriesEvidence(c) ==
    /\ Keys(c.details) # {}
    /\ c.check \in {"mass_finite", "mass_positive", "zero_mass_inertia"} =>
          ("mass" \in Keys(c.details) /\ c.details.mass = TheMass)
    /\ c.check \in {"positive_definite", "triangle_inequality"} =>
          ("eigenvalues" \in Keys(c.details) /\ c.details.eigenvalues = TheEigenvalues)
    /\ c.check = "eigenvalue_ratio" =>
          /\ {"max", "min", "ratio"} \subseteq Keys(c.details)
          /\ c.details.max = TheEigenvalues[3]
          /\ c.details.ratio = Quot(c.details.max, c.details.min)
    /\ c.check = "geometry_consistency" =>
          /\ {"expected_eigenvalues", "actual_eigenvalues", "ratio_range"}
                \subseteq Keys(c.details)
          /\ c.details.actual_eigenvalues = TheEigenvalues

(***************************************************************************)
(* C27 as stated: every check of a link that has an Inertial carries a     *)
(* non-empty details mapping with the evidence of its decision: the mass   *)
(* for mass_finite, mass_positive and zero_mass_inertia, the eigenvalues   *)
(* for positive_definite and triangle_inequality, max/min/ratio for        *)
(* eigenvalue_ratio, expected and actual eigenvalues and the ratio range   *)
(* for geometry_consistency.                                               *)
(***************************************************************************)
Orig_C27 ==
    (Evaluated /\ HasInertial) =>
        \A i \in DOMAIN report : CarriesEvidence(report[i])

(***************************************************************************)
(* C28 as stated: in every report of a link with an Inertial,              *)
(* triangle_inequality passing implies positive_definite passing, also for *)
(* tensors with an eigenvalue exactly equal to 1e-9.                       *)
(***************************************************************************)
Orig_C28 ==
    (Evaluated /\ HasInertial) =>
        (Check("triangle_inequality").passed => Check("positive_definite").passed)

(***************************************************************************)
(* C28 amended: triangle_inequality passing implies that every eigenvalue  *)
(* is at least 1e-9, and implies positive_definite passing for every       *)
(* tensor that has no eigenvalue exactly equal to 1e-9.  The two verdicts  *)
(* part exactly when the smallest eigenvalue equals 1e-9 and the largest   *)
(* is at most the sum of the other two plus 1e-9: triangle_inequality      *)
(* passes and positive_definite fails.                                     *)
(***************************************************************************)
Thm_C28 ==
    (Evaluated /\ HasInertial) =>
        LET e == TheEigenvalues
            triangle == Check("triangle_inequality").passed
            definite == Check("positive_definite").passed
        IN  /\ triangle => \A i \in 1..3 : e[i] >= Tol
            /\ (\A i \in 1..3 : e[i] # Tol) => (triangle => definite)
            /\ (triangle /\ ~definite) <=> (e[1] = Tol /\ e[3] <= e[1] + e[2] + Tol)
            /\ definite => \A i \in 1..3 : e[i] > Tol

\* all three eigenvalues are exactly 1e-9: triangle_inequality passes, positive_definite fails
Wit_C28 ==
    /\ Evaluated
    /\ HasInertial
    /\ TheEigenvalues = <<Tol, Tol, Tol>>
    /\ Check("triangle_inequality").passed
    /\ ~Check("positive_definite").passed

(***************************************************************************)
(* The written document, loaded and evaluated again                        *)
(***************************************************************************)
\* the k-th link of the written document as load_urdf returns it
Reloaded(k) == _parse_links(output.root)[k]

\* the check of this identifier in a report that holds it once
CheckOf(rep, name) == rep[CHOOSE i \in DOMAIN rep : rep[i].check = name]
Holds(rep, name) == \E i \in DOMAIN rep : rep[i].check = name

\* the six written values are whole numbers of units and the tensor is diagonal
WrittenDiagonal(k) ==
    /\ \A e \in 1..6 : output.root[k].inertial.inertia.attrs[e].d = 1
    /\ \A e \in {2, 3, 5} : output.root[k].inertial.inertia.attrs[e].n = 0

\* the link was rewritten from its first collision
FromFirstCollision(k) ==
    /\ flags.prefer_collision
    /\ Updated(k)
    /\ model[k].collisions # <<>>

MomentsExceedTol(k) ==
    \A i \in 1..3 : ExactMoments(model[k].collisions[1].geometry, PersistedMass(k))[i].n > Tol

(***************************************************************************)
(* C29 as stated: a link rewritten from its first collision, evaluated     *)
(* again, passes positive_definite, triangle_inequality and                *)
(* geometry_consistency, with the ratios of geometry_consistency equal to  *)
(* 1, whenever the three estimated moments exceed 1e-9.  Stated for the    *)
(* written tensors that are diagonal in whole units.                       *)
(***************************************************************************)
Orig_C29 ==
    (rpc = "written" /\ DistinctNames(model)) =>
        \A k \in DOMAIN output.root :
            (FromFirstCollision(k) /\ MomentsExceedTol(k) /\ WrittenDiagonal(k)) =>
                LET again == Reloaded(k)
                    eigvals == eigvalsh(_build_inertia_matrix(again.inertial.inertia))
                    approx == _approximate_collision_inertia(again.collisions,
                                                             again.inertial.mass)
                    ratios == PairRatios(Sort3(eigvals[1], eigvals[2], eigvals[3]),
                                         SortFloats(approx.moments), 1)
                IN  /\ PositiveDefiniteCheck(eigvals).passed
                    /\ TriangleCheck(eigvals).passed
                    /\ ~GeometryMassGuard(again.inertial.mass)
                    /\ approx # NoEstimate
                    /\ ratios # <<>>
                    /\ \A i \in DOMAIN ratios : ratios[i].k = "quot" /\ ratios[i].n = ratios[i].d

(***************************************************************************)
(* physcheck.urdf.loader and physcheck.urdf.tree: the kinematic tree.  A   *)
(* dict is a function from its keys; a missing key is a name outside the   *)
(* domain.                                                                 *)
(***************************************************************************)
Joint(name, parent, child) == [name |-> name, parent |-> parent, child |-> child]

EmptyDict == [k \in {} |-> k]

\* d[key] = value
SetItem(d, key, value) ==
    [k \in DOMAIN d \cup {key} |-> IF k = key THEN value ELSE d[k]]

\* d.setdefault(key, default)
SetDefault(d, key, default) == IF key \in DOMAIN d THEN d ELSE SetItem(d, key, default)

\* the first link that is no joint's child, else the first link, else ""
_detect_base_link(links, joints) ==
    LET child_links == {joints[j].child : j \in DOMAIN joints}
        free == {i \in DOMAIN links : links[i].name \notin child_links}
    IN  IF free # {} THEN links[CHOOSE i \in free : \A j \in free : i <= j].name
        ELSE IF links # <<>> THEN links[1].name ELSE ""

\* load_urdf: links, joints and the detected base link
UrdfModel(links, joints) ==
    [links |-> links, joints |-> joints, base_link |-> _detect_base_link(links, joints)]

\* mutant: the first joint of a child is kept instead of the last
JointStep_KeepFirst(maps, joint) ==
    LET listed == SetDefault(maps.parent_to_children, joint.parent, <<>>)
        appended == SetItem(listed, joint.parent, Append(listed[joint.parent], joint.child))
    IN  [child_to_parent |-> SetDefault(maps.child_to_parent, joint.child, joint.parent),
         child_to_joint |-> SetDefault(maps.child_to_joint, joint.child, joint.name),
         parent_to_children |-> SetDefault(appended, joint.child, <<>>)]

\* the body of the loop over model.joints
JointStep(maps, joint) ==
    LET listed == SetDefault(maps.parent_to_children, joint.parent, <<>>)
        appended == SetItem(listed, joint.parent, Append(listed[joint.parent], joint.child))
    IN  [child_to_parent |-> SetItem(maps.child_to_parent, joint.child, joint.parent),
         child_to_joint |-> SetItem(maps.child_to_joint, joint.child, joint.name),
         parent_to_children |-> SetDefault(appended, joint.child, <<>>)]

RECURSIVE JointsFrom(_, _, _)
JointsFrom(joints, i, maps) ==
    IF i > Len(joints) THEN maps
    ELSE JointsFrom(joints, i + 1, JointStep(maps, joints[i]))

build_kinematic_tree(m) ==
    LET start == [child_to_parent |-> EmptyDict,
                  child_to_joint |-> EmptyDict,
                  parent_to_children |->
                      [n \in {m.links[i].name : i \in DOMAIN m.links} |-> <<>>]]
        maps == JointsFrom(m.joints, 1, start)
    IN  [root |-> m.base_link,
         child_to_parent |-> maps.child_to_parent,
         child_to_joint |-> maps.child_to_joint,
         parent_to_children |-> maps.parent_to_children]

NoName == "None"

\* self.child_to_parent.get(link)
parent_of(t, name) == IF name \in DOMAIN t.child_to_parent THEN t.child_to_parent[name] ELSE NoName

\* self.child_to_joint.get(child_link)
joint_for(t, name) == IF name \in DOMAIN t.child_to_joint THEN t.child_to_joint[name] ELSE NoName

\* self.parent_to_children.get(link, ())
children_of(t, name) ==
    IF name \in DOMAIN t.parent_to_children THEN t.parent_to_children[name] ELSE <<>>

\* reversed(seq)
RECURSIVE Reversed(_)
Reversed(q) == IF q = <<>> THEN <<>> ELSE Append(Reversed(Tail(q)), Head(q))

(***************************************************************************)
(* physcheck.visualization.tree: compute_tree_layout.  A position is kept  *)
(* in units of half the horizontal spacing (0.9) and of the vertical       *)
(* spacing (1.2): (center - spans[root] / 2) * 1.8 is                      *)
(* (2 * left + span - spans[root]) * 0.9 and -depth * 1.2 is -depth.       *)
(* The recursion has no visited set; a call nested deeper than there are   *)
(* names is on a cycle and ends in Python's RecursionError.                *)
(***************************************************************************)
RecursionError == [k |-> "RecursionError"]

\* compute_span(node): the spans dict after the call, or RecursionError
RECURSIVE compute_span(_, _, _, _, _)
RECURSIVE SpanChildren(_, _, _, _, _, _, _, _)
compute_span(t, node, spans, depth, limit) ==
    IF depth > limit THEN RecursionError
    ELSE LET children == children_of(t, node)
         IN  IF children = <<>>
             THEN [k |-> "ok", value |-> 1, spans |-> SetItem(spans, node, 1)]
             ELSE SpanChildren(t, node, children, 1, 0, spans, depth, limit)

\* total += compute_span(child) over the children, then spans[node] = max(total, 1.0)
SpanChildren(t, node, children, i, total, spans, depth, limit) ==
    IF i > Len(children)
    THEN LET span == IF total > 1 THEN total ELSE 1
         IN  [k |-> "ok", value |-> span, spans |-> SetItem(spans, node, span)]
    ELSE LET sub == compute_span(t, children[i], spans, depth + 1, limit)
         IN  IF sub.k # "ok" THEN RecursionError
             ELSE SpanChildren(t, node, children, i + 1, total + sub.value, sub.spans,
                               depth, limit)

\* mutant: the children are laid out at the depth of their parent
RECURSIVE assign_positions_Flat(_, _, _, _, _, _)
RECURSIVE PlaceChildren_Flat(_, _, _, _, _, _, _)
assign_positions_Flat(t, spans, node, depth, left, positions) ==
    LET placed == SetItem(positions, node,
                          <<2 * left + spans[node] - spans[t.root], -depth>>)
        children == children_of(t, node)
    IN  IF children = <<>> THEN placed
        ELSE PlaceChildren_Flat(t, spans, children, 1, depth, left, placed)

PlaceChildren_Flat(t, spans, children, i, depth, cursor, positions) ==
    IF i > Len(children) THEN positions
    ELSE PlaceChildren_Flat(t, spans, children, i + 1, depth, cursor + spans[children[i]],
                            assign_positions_Flat(t, spans, children[i], depth, cursor,
                                                  positions))

\* assign_positions(node, depth, left): the positions dict after the call
RECURSIVE assign_positions(_, _, _, _, _, _)
RECURSIVE PlaceChildren(_, _, _, _, _, _, _)
assign_positions(t, spans, node, depth, left, positions) ==
    LET placed == SetItem(positions, node,
                          <<2 * left + spans[node] - spans[t.root], -depth>>)
        children == children_of(t, node)
    IN  IF children = <<>> THEN placed
        ELSE PlaceChildren(t, spans, children, 1, depth, left, placed)

\* the loop over the children: assign_positions(child, depth + 1, cursor)
PlaceChildren(t, spans, children, i, depth, cursor, positions) ==
    IF i > Len(children) THEN positions
    ELSE PlaceChildren(t, spans, children, i + 1, depth, cursor + spans[children[i]],
                       assign_positions(t, spans, children[i], depth + 1, cursor, positions))

compute_tree_layout(t, limit) ==
    LET spanned == compute_span(t, t.root, EmptyDict, 0, limit)
    IN  IF spanned.k # "ok" THEN RecursionError
        ELSE [k |-> "ok", spans |-> spanned.spans,
              positions |-> assign_positions(t, spanned.spans, t.root, 0, 0, EmptyDict)]

(***************************************************************************)
(* One model through build_kinematic_tree, descendants() and               *)
(* compute_tree_layout.  The joints may name any link as parent or child:  *)
(* the loader checks neither that a link has one parent nor that the       *)
(* joints are free of cycles, nor that a joint's links are declared.       *)
(***************************************************************************)
MaxJoints == 3

NodeNames == <<"a", "b", "c">>

JointNames == <<"j1", "j2", "j3", "j4", "j5">>

LinkLists == {[i \in 1..n |-> [name |-> NodeNames[i]]] : n \in 0..Len(NodeNames)}

Pairs == {<<NodeNames[i], NodeNames[j]>> : i, j \in DOMAIN NodeNames}

JointLists ==
    UNION {{[i \in 1..n |-> Joint(JointNames[i], ps[i][1], ps[i][2])] :
            ps \in [1..n -> Pairs]} : n \in 0..MaxJoints}

\* a call nested deeper than the tree has names is on a cycle
RecursionLimit(t) == Cardinality(DOMAIN t.parent_to_children)

EngineAtRest ==
    /\ link = Link("link", NoInertial, <<>>)
    /\ report = <<>>
    /\ first = <<>>
    /\ est = NoEstimates
    /\ pc = "unused"

RewriterAtRest == urdf = <<>> /\ flags = NoFlags /\ Locals /\ rpc = "unused"

TreeInit ==
    /\ \E links \in LinkLists, joints \in JointLists : umodel = UrdfModel(links, joints)
    /\ ktree = <<>> /\ stack = <<>> /\ visited = {} /\ yielded = <<>> /\ layout = <<>>
    /\ tpc = "loaded"
    /\ EngineAtRest /\ RewriterAtRest /\ SceneAtRest /\ CliAtRest

BuildTree ==
    /\ tpc = "loaded"
    /\ ktree' = build_kinematic_tree(umodel)
    /\ tpc' = "built"
    /\ UNCHANGED <<umodel, stack, visited, yielded, layout>>
    /\ UNCHANGED <<evars, rvars, svars, cvars>>

\* visited = set(); stack = [self.root]
StartDescendants ==
    /\ tpc = "built"
    /\ stack' = <<ktree.root>>
    /\ visited' = {}
    /\ yielded' = <<>>
    /\ tpc' = "walking"
    /\ UNCHANGED <<umodel, ktree, layout>>
    /\ UNCHANGED <<evars, rvars, svars, cvars>>

\* one turn of "while stack": a visited node is dropped, a new one is yielded
DescendStep ==
    /\ tpc = "walking"
    /\ stack # <<>>
    /\ LET node == stack[Len(stack)]
           popped == SubSeq(stack, 1, Len(stack) - 1)
       IN  IF node \in visited
           THEN /\ stack' = popped
                /\ UNCHANGED <<visited, yielded>>
           ELSE /\ visited' = visited \cup {node}
                /\ yielded' = Append(yielded, node)
                /\ stack' = popped \o Reversed(children_of(ktree, node))
    /\ UNCHANGED <<umodel, ktree, layout, tpc>>
    /\ UNCHANGED <<evars, rvars, svars, cvars>>

EndDescendants ==
    /\ tpc = "walking"
    /\ stack = <<>>
    /\ tpc' = "walked"
    /\ UNCHANGED <<umodel, ktree, stack, visited, yielded, layout>>
    /\ UNCHANGED <<evars, rvars, svars, cvars>>

Layout ==
    /\ tpc = "walked"
    /\ layout' = compute_tree_layout(ktree, RecursionLimit(ktree))
    /\ tpc' = "laid"
    /\ UNCHANGED <<umodel, ktree, stack, visited, yielded>>
    /\ UNCHANGED <<evars, rvars, svars, cvars>>

TreeNext == BuildTree \/ StartDescendants \/ DescendStep \/ EndDescendants \/ Layout

TreeSpec == TreeInit /\ [][TreeNext]_vars

TreeTypeOK == tpc \in {"loaded", "built", "walking", "walked", "laid"}

(***************************************************************************)
(* The kinematic tree: what the claims say of it                           *)
(***************************************************************************)
Built == tpc # "loaded"

AllNames == {NodeNames[i] : i \in DOMAIN NodeNames}

InSeq(x, q) == \E i \in DOMAIN q : q[i] = x

\* the children of the joints whose parent is p, in document order
RECURSIVE ChildrenInOrder(_, _)
ChildrenInOrder(joints, p) ==
    IF joints = <<>> THEN <<>>
    ELSE IF Head(joints).parent = p
         THEN <<Head(joints).child>> \o ChildrenInOrder(Tail(joints), p)
         ELSE ChildrenInOrder(Tail(joints), p)

\* the joints of the document whose child is c
JointsInto(c) == {j \in DOMAIN umodel.joints : umodel.joints[j].child = c}

LastInto(c) == umodel.joints[CHOOSE j \in JointsInto(c) : \A i \in JointsInto(c) : i <= j]

\* the links, in document order, that are the child of no joint
FreeLinks == {i \in DOMAIN umodel.links : JointsInto(umodel.links[i].name) = {}}

FirstFree == umodel.links[CHOOSE i \in FreeLinks : \A j \in FreeLinks : i <= j].name

\* no link is the child of two joints, and some link is the child of none
OneParentEach == \A c \in AllNames : Cardinality(JointsInto(c)) <= 1

MapsAgree ==
    \A p, c \in AllNames : InSeq(c, children_of(ktree, p)) <=> parent_of(ktree, c) = p

JointMatches ==
    \A c \in AllNames :
        joint_for(ktree, c) # NoName =>
            \E j \in DOMAIN umodel.joints :
                /\ umodel.joints[j].name = joint_for(ktree, c)
                /\ umodel.joints[j].parent = parent_of(ktree, c)
                /\ umodel.joints[j].child = c

DocumentOrder ==
    \A p \in AllNames : children_of(ktree, p) = ChildrenInOrder(umodel.joints, p)

\* C22 as stated: the maps agree and the root is the first free link, for every model
Orig_C22 ==
    Built => /\ MapsAgree
             /\ JointMatches
             /\ DocumentOrder
             /\ FreeLinks # {}
             /\ ktree.root = FirstFree

\* C22: children_of(p) lists, in document order, the child of every joint whose
\* parent is p; parent_of(c) and joint_for(c) are those of the last joint whose
\* child is c, and None when there is none, so parent_of(c) = p puts c among
\* children_of(p); the two maps agree both ways when no link is the child of two
\* joints; the root is the first link that is the child of no joint when there
\* is one, else the first link, else the empty name
Thm_C22 ==
    Built =>
        /\ DocumentOrder
        /\ JointMatches
        /\ \A c \in AllNames :
              IF JointsInto(c) = {}
              THEN parent_of(ktree, c) = NoName /\ joint_for(ktree, c) = NoName
              ELSE /\ parent_of(ktree, c) = LastInto(c).parent
                   /\ joint_for(ktree, c) = LastInto(c).name
                   /\ InSeq(c, children_of(ktree, parent_of(ktree, c)))
        /\ OneParentEach => MapsAgree
        /\ ktree.root = IF FreeLinks # {} THEN FirstFree
                        ELSE IF umodel.links # <<>> THEN umodel.links[1].name ELSE ""

\* a link with two children under joints in that order, each child with one parent
Wit_C22 ==
    /\ Built
    /\ OneParentEach
    /\ umodel.links # <<>>
    /\ ktree.root = "a"
    /\ children_of(ktree, "a") = <<"c", "b">>
    /\ parent_of(ktree, "c") = "a"

\* a link that is the child of two joints with different parents
Wit_C22_TwoParents ==
    /\ Built
    /\ \E c \in AllNames : \E i, j \in JointsInto(c) :
          i < j /\ umodel.joints[i].parent # umodel.joints[j].parent

(***************************************************************************)
(* The layout: x in units of 0.9 and y in units of 1.2                     *)
(***************************************************************************)
Laid == tpc = "laid" /\ layout.k = "ok"

Placed == DOMAIN layout.positions

X(n) == layout.positions[n][1]

Y(n) == layout.positions[n][2]

\* the edges of the strip of width spans[n] given to n
LeftEdge(n) == X(n) - layout.spans[n]

RightEdge(n) == X(n) + layout.spans[n]

RootAtOrigin == X(ktree.root) = 0 /\ Y(ktree.root) = 0

ChildrenBelow ==
    \A p \in Placed : \A i \in DOMAIN children_of(ktree, p) :
        Y(children_of(ktree, p)[i]) = Y(p) - 1

SingleChildAligned ==
    \A p \in Placed :
        Len(children_of(ktree, p)) = 1 => X(children_of(ktree, p)[1]) = X(p)

\* twice the parent's x is the left edge of its first child plus the right edge of its last
CentredOverChildren ==
    \A p \in Placed :
        LET children == children_of(ktree, p)
        IN  children # <<>> =>
                2 * X(p) = LeftEdge(children[1]) + RightEdge(children[Len(children)])

\* C23 as stated: for every layout that is returned, whatever the joints
Orig_C23 ==
    Laid => RootAtOrigin /\ ChildrenBelow /\ SingleChildAligned /\ CentredOverChildren

\* C23: a returned layout has the root at (0, 0) and every other placed link one
\* vertical spacing (-depth * 1.2 against -(depth - 1) * 1.2) below one of the
\* links that list it as a child; when no link is the child of more than one
\* joint, every child is one vertical spacing below its parent, a node with a
\* single child has that child's x, and a parent's x is the centre of the strip
\* from the left edge of its first child to the right edge of its last
Thm_C23 ==
    Laid =>
        /\ RootAtOrigin
        /\ \A c \in Placed \ {ktree.root} :
              \E p \in Placed : /\ InSeq(c, children_of(ktree, p))
                                /\ Y(c) = Y(p) - 1
        /\ OneParentEach => ChildrenBelow /\ SingleChildAligned /\ CentredOverChildren

\* a root over two leaves: the leaves at -0.9 and 0.9, one spacing down
Wit_C23 ==
    /\ Laid
    /\ OneParentEach
    /\ ktree.root = "a"
    /\ children_of(ktree, "a") = <<"b", "c">>
    /\ layout.positions["a"] = <<0, 0>>
    /\ layout.positions["b"] = <<-1, -1>>
    /\ layout.positions["c"] = <<1, -1>>

\* a chain: every link at x = 0, the last two spacings down
Wit_C23_Chain ==
    /\ Laid
    /\ OneParentEach
    /\ children_of(ktree, "a") = <<"b">>
    /\ children_of(ktree, "b") = <<"c">>
    /\ ktree.root = "a"
    /\ layout.positions["c"] = <<0, -2>>

\* a link under two parents is drawn where its last visit put it
Wit_C23_Shared ==
    /\ Laid
    /\ ~OneParentEach
    /\ ~(ChildrenBelow /\ SingleChildAligned)

(***************************************************************************)
(* Termination of the two traversals                                       *)
(***************************************************************************)
\* the links reached from the root along the joints, the root included
RECURSIVE ReachedFrom(_)
ReachedFrom(seen) ==
    LET more == {umodel.joints[j].child : j \in {i \in DOMAIN umodel.joints :
                                                   umodel.joints[i].parent \in seen}}
    IN  IF more \subseteq seen THEN seen ELSE ReachedFrom(seen \cup more)

Reachable == ReachedFrom({umodel.base_link})

Yielded == {yielded[i] : i \in DOMAIN yielded}

EachOnce == \A i, j \in DOMAIN yielded : yielded[i] = yielded[j] => i = j

\* descendants() has returned with every reachable link yielded once
DescendantsDone == tpc \in {"walked", "laid"} => EachOnce /\ Yielded = Reachable

\* compute_tree_layout has returned positions for the links descendants() yielded
LayoutDone == tpc = "laid" => layout.k = "ok" /\ DOMAIN layout.positions = Yielded

\* C30 as stated: for every model, both traversals return and cover the same links
Orig_C30 == DescendantsDone /\ LayoutDone

\* a cycle through the root: descendants() has returned, compute_span has not
Cyclic_C30 ==
    /\ tpc = "laid"
    /\ layout = RecursionError
    /\ EachOnce
    /\ Yielded = Reachable

(***************************************************************************)
(* physcheck.visualization.scene: build_tree_scene on a model of one link. *)
(* The node carries the checks passed in and a visualization payload whose *)
(* expected_eigenvalues come from the scene builder's own estimator.       *)
(***************************************************************************)
NoResults == [k |-> "none"]

Results(name, checks) == [k |-> "dict", name |-> name, checks |-> checks]

\* severity_lookup = inertia_results or {}; severity_lookup.get(link.name, [])
ChecksFor(inertia_results, name) ==
    IF inertia_results.k = "dict" /\ inertia_results.name = name
    THEN inertia_results.checks ELSE <<>>

\* the status and severity of one formatted entry
StatusEntry(check) ==
    IF check.passed THEN [status |-> "OK", severity |-> "info", headline |-> check.check]
    ELSE IF check.severity = "warning"
    THEN [status |-> "WARN", severity |-> "warning", headline |-> check.check]
    ELSE [status |-> "FAIL", severity |-> "error", headline |-> check.check]

\* the outline of the node: the worst severity among the entries
_derive_status_style(checks, has_inertia) ==
    LET entries == [i \in DOMAIN checks |-> StatusEntry(checks[i])]
        worst == IF \E i \in DOMAIN entries : entries[i].severity = "error" THEN "error"
                 ELSE IF \E i \in DOMAIN entries : entries[i].severity = "warning"
                 THEN "warning" ELSE "info"
    IN  [outline |-> IF worst = "error" THEN "#c62828"
                     ELSE IF worst = "warning" THEN "#f9a825"
                     ELSE IF has_inertia THEN "#1565c0" ELSE "#90a4ae",
         entries |-> entries]

\* expected = None, then the scene's own estimate for a link with collisions
\* and an inertial: estimated.tolist(), None, or the TypeError of a None mass
ExpectedFor(l) ==
    IF l.collisions # <<>> /\ l.inertial.present THEN SceneEstimate(l) ELSE NoEstimate

build_tree_scene(l, inertia_results) ==
    LET has_inertia == l.inertial.present
        has_collision == l.collisions # <<>>
        checks == ChecksFor(inertia_results, l.name)
        style == _derive_status_style(checks, has_inertia)
        expected == ExpectedFor(l)
    IN  IF expected = Raised THEN Raised
        ELSE [k |-> "scene",
              name |-> l.name,
              has_inertia |-> has_inertia,
              has_collision |-> has_collision,
              checks |-> checks,
              check_entries |-> style.entries,
              expected_eigenvalues |-> expected,
              shape |-> IF has_inertia THEN "ellipse" ELSE "rectangle",
              fill |-> IF has_collision THEN "#66bb6a"
                       ELSE IF has_inertia THEN "#e3f2fd" ELSE "#eceff1",
              outline |-> style.outline]

SceneInit ==
    /\ link \in Links
    /\ report = <<>>
    /\ first = <<>>
    /\ est = NoEstimates
    /\ pc = "loaded"
    /\ scene = <<>>
    /\ RewriterAtRest /\ TreeAtRest /\ CliAtRest

\* inertia_results = {link.name: evaluate_link_inertia(link)}
Summarize ==
    /\ pc = "loaded"
    /\ report' = evaluate_link_inertia(link)
    /\ pc' = "summarized"
    /\ UNCHANGED <<link, first, est, scene>>
    /\ UNCHANGED <<rvars, tvars, cvars>>

\* build_tree_scene(tree, inertia_results=...), or without inertia results
BuildScene ==
    /\ pc \in {"loaded", "summarized"}
    /\ scene' = build_tree_scene(link, IF pc = "summarized"
                                       THEN Results(link.name, report) ELSE NoResults)
    /\ pc' = IF pc = "summarized" THEN "built" ELSE "built_bare"
    /\ UNCHANGED <<link, report, first, est>>
    /\ UNCHANGED <<rvars, tvars, cvars>>

SceneNext == Summarize \/ BuildScene

SceneSpec == SceneInit /\ [][SceneNext]_vars

(***************************************************************************)
(* The scene against the check engine                                      *)
(***************************************************************************)
GeometryChecksOf(checks) ==
    {i \in DOMAIN checks : checks[i].check = "geometry_consistency"}

\* C21 as stated: the node of a link with a geometry_consistency check among
\* the results passed in shows the expected_eigenvalues of that check
Orig_C21 ==
    (pc = "built" /\ scene # Raised) =>
        \A i \in GeometryChecksOf(scene.checks) :
            scene.expected_eigenvalues = Array(scene.checks[i].details.expected_eigenvalues)

\* a box with unequal sides: the check carries the moments sorted, the scene unsorted
Unsorted_C21 ==
    /\ pc = "built"
    /\ scene # Raised
    /\ \E i \in GeometryChecksOf(scene.checks) :
          /\ scene.expected_eigenvalues.k = "some"
          /\ scene.expected_eigenvalues.moments
                 # scene.checks[i].details.expected_eigenvalues
          /\ SortFloats(scene.expected_eigenvalues.moments)
                 = scene.checks[i].details.expected_eigenvalues

\* a mass that is not finite: the check carries an estimate, the scene shows None
Missing_C21 ==
    /\ pc = "built"
    /\ scene # Raised
    /\ GeometryChecksOf(scene.checks) # {}
    /\ scene.expected_eigenvalues = NoEstimate

(***************************************************************************)
(* physcheck.scripts.show_kinematic_tree: resolve_urdf_path.  The robots   *)
(* directory is the listing list_robot_urdfs returns (robots in the order  *)
(* of their lower-cased names, each with a non-empty list of files); the   *)
(* target is a text together with what Path(target) is on disk.            *)
(***************************************************************************)
MaxUrdfs == 3
MaxPrompts == 2

FileNames == <<"a.urdf", "b.urdf", "c.urdf", "d.urdf", "e.urdf">>

Path(absolute, base, name, file) ==
    [absolute |-> absolute, base |-> base, name |-> name, file |-> file]

\* Path.resolve(): the absolute path of the same file
Resolve(p) == [p EXCEPT !.absolute = TRUE]

\* return <path>.resolve()
Returned(p) == [k |-> "path", path |-> Resolve(p)]

FileNotFoundError == [k |-> "FileNotFoundError"]

NotReturned == [k |-> "none"]

\* str.lower() on the names used
Lower(text) ==
    CASE text = "Arm" -> "arm"
      [] text = "ARM" -> "arm"
      [] OTHER -> text

\* int(response.strip()): the integer, or ValueError
PyInt(response) ==
    CASE response = "1" -> [ok |-> TRUE, value |-> 1]
      [] response = " 2 " -> [ok |-> TRUE, value |-> 2]
      [] response = "+3" -> [ok |-> TRUE, value |-> 3]
      [] response = "4" -> [ok |-> TRUE, value |-> 4]
      [] response = "0" -> [ok |-> TRUE, value |-> 0]
      [] response = "-1" -> [ok |-> TRUE, value |-> -1]
      [] OTHER -> [ok |-> FALSE, value |-> 0]

Responses == {"1", " 2 ", "+3", "4", "0", "-1", "2.0", "two", ""}

Files(absolute, base, name, n) == [i \in 1..n |-> Path(absolute, base, name, FileNames[i])]

Robot(name, urdfs) == [name |-> name, urdfs |-> urdfs]

\* the robot directories in listing order; "Arm" and "arm" sort as equals
Orders == {<<"Arm", "arm", "cartpole">>, <<"arm", "Arm", "cartpole">>}

RECURSIVE Listings(_, _, _)
Listings(absolute, names, i) ==
    IF i > Len(names) THEN {<<>>}
    ELSE LET rest == Listings(absolute, names, i + 1)
         IN  rest \cup {<<Robot(names[i], Files(absolute, "robots", names[i], n))>> \o q :
                        n \in {1, MaxUrdfs}, q \in rest}

RobotListings ==
    UNION {Listings(absolute, names, 1) : absolute \in BOOLEAN, names \in Orders}

NoTarget == [k |-> "none"]

\* what Path(target).expanduser() is: nothing, a file, or a directory of n files
OnDisk == {[kind |-> "absent", urdfs |-> <<>>], [kind |-> "file", urdfs |-> <<>>]}

Directories(text) ==
    {[kind |-> "dir", urdfs |-> Files(FALSE, "cwd", text, n)] : n \in {0, 1, MaxUrdfs}}

Targets ==
    {NoTarget, [k |-> "text", text |-> "", disk |-> [kind |-> "dir", urdfs |-> <<>>]]}
    \cup {[k |-> "text", text |-> text, disk |-> d] :
             text \in {"Arm", "ARM", "cartpole", "ghost"}, d \in OnDisk}
    \cup UNION {{[k |-> "text", text |-> text, disk |-> d] : d \in Directories(text)} :
                   text \in {"Arm", "ghost"}}

\* name_lookup = {name.lower(): name for name in robots}: the last name wins
name_lookup(listing, key) ==
    LET found == {i \in DOMAIN listing : Lower(listing[i].name) = key}
    IN  IF found = {} THEN NoName
        ELSE listing[CHOOSE i \in found : \A j \in found : j <= i].name

\* robots[robot_name]
UrdfsOf(listing, name) ==
    listing[CHOOSE i \in DOMAIN listing : listing[i].name = name].urdfs

\* the state of resolve_urdf_path: returned, raised, or inside prompt_choice
Done(r) == [cpc |-> IF r = FileNotFoundError THEN "raised" ELSE "returned",
            result |-> r, call |-> <<>>]

Prompting(kind, options, paths) ==
    [cpc |-> "prompting", result |-> NotReturned,
     call |-> [kind |-> kind, options |-> options, paths |-> paths]]

\* mutant: a list of one file is prompted for like any other
Choose_Always(kind, paths) ==
    Prompting(kind, [i \in DOMAIN paths |-> paths[i].file], paths)

\* len(urdfs) == 1: the file; else prompt_choice over the file names
Choose(kind, paths) ==
    IF Len(paths) = 1 THEN Done(Returned(paths[1]))
    ELSE Prompting(kind, [i \in DOMAIN paths |-> paths[i].file], paths)

\* resolve_urdf_path up to its first prompt
Begin(listing, tgt) ==
    IF tgt.k = "text" /\ tgt.text # "" THEN
        IF tgt.disk.kind = "file"
        THEN Done(Returned(Path(FALSE, "cwd", "", tgt.text)))
        ELSE IF tgt.disk.kind = "dir"
        THEN IF tgt.disk.urdfs = <<>> THEN Done(FileNotFoundError)
             ELSE Choose("directory", tgt.disk.urdfs)
        ELSE LET robot_name == name_lookup(listing, Lower(tgt.text))
             IN  IF robot_name = NoName THEN Done(FileNotFoundError)
                 ELSE Choose("urdf", UrdfsOf(listing, robot_name))
    ELSE IF listing = <<>> THEN Done(FileNotFoundError)
    ELSE IF Len(listing) = 1 THEN Choose("urdf", listing[1].urdfs)
    ELSE Prompting("robot", [i \in DOMAIN listing |-> listing[i].name], <<>>)

\* 1 <= index <= len(options)
InRange(index, options) == 1 <= index /\ index <= Len(options)

\* one turn of the loop of prompt_choice: the index, or None to prompt again
prompt_turn(response, options) ==
    LET parsed == PyInt(response)
    IN  IF parsed.ok /\ InRange(parsed.value, options)
        THEN [k |-> "index", index |-> parsed.value - 1]
        ELSE [k |-> "again"]

\* resolve_urdf_path after prompt_choice has returned index (0-based)
Continue(listing, c, index) ==
    IF c.kind = "robot" THEN Choose("urdf", listing[index + 1].urdfs)
    ELSE Done(Returned(c.paths[index + 1]))

CliInit ==
    /\ robots \in RobotListings
    /\ target \in Targets
    /\ answers = <<>>
    /\ call = <<>>
    /\ result = NotReturned
    /\ cpc = "start"
    /\ EngineAtRest /\ RewriterAtRest /\ TreeAtRest /\ SceneAtRest

\* resolve_urdf_path(target, robots_root) up to its return, raise or first prompt
Begun ==
    /\ cpc = "start"
    /\ LET next == Begin(robots, target)
       IN  cpc' = next.cpc /\ result' = next.result /\ call' = next.call
    /\ UNCHANGED <<robots, target, answers>>
    /\ UNCHANGED <<evars, rvars, tvars, svars>>

\* input_fn returns a response: prompt_choice returns or prompts again
Respond ==
    /\ cpc = "prompting"
    /\ Len(answers) < MaxPrompts
    /\ \E response \in Responses :
          /\ answers' = Append(answers, response)
          /\ LET chosen == prompt_turn(response, call.options)
             IN  IF chosen.k = "again"
                 THEN UNCHANGED <<cpc, result, call>>
                 ELSE LET next == Continue(robots, call, chosen.index)
                      IN  cpc' = next.cpc /\ result' = next.result /\ call' = next.call
    /\ UNCHANGED <<robots, target>>
    /\ UNCHANGED <<evars, rvars, tvars, svars>>

CliNext == Begun \/ Respond

CliSpec == CliInit /\ [][CliNext]_vars

(***************************************************************************)
(* The selection: what the claim says of it                                *)
(***************************************************************************)
ByText == target.k = "text" /\ target.text # ""

\* the robots whose name is the target up to case
Matches == {i \in DOMAIN robots : Lower(robots[i].name) = Lower(target.text)}

\* the one of them the lookup keeps: the last in listing order
Kept == robots[CHOOSE i \in Matches : \A j \in Matches : j <= i].urdfs

\* the response is an integer n with 1 <= n <= count
Picks(response, count) ==
    PyInt(response).ok /\ 1 <= PyInt(response).value /\ PyInt(response).value <= count

Started == cpc # "start"

\* the outcome of choosing among the files of urdfs by the responses read so far
ChosenAmong(urdfs) ==
    IF Len(urdfs) = 1
    THEN cpc = "returned" /\ answers = <<>> /\ result = Returned(urdfs[1])
    ELSE \/ /\ cpc = "prompting"
            /\ \A i \in DOMAIN answers : ~Picks(answers[i], Len(urdfs))
         \/ /\ cpc = "returned"
            /\ answers # <<>>
            /\ \A i \in 1..(Len(answers) - 1) : ~Picks(answers[i], Len(urdfs))
            /\ Picks(answers[Len(answers)], Len(urdfs))
            /\ result = Returned(urdfs[PyInt(answers[Len(answers)]).value])

\* C24 as stated: every target that is a robot's name up to case ends in one of
\* that robot's files, and every other target that is no existing path raises
Orig_C24 ==
    (Started /\ ByText) =>
        IF Matches # {}
        THEN /\ cpc \in {"prompting", "returned"}
             /\ cpc = "returned" =>
                   \E i \in Matches : \E j \in DOMAIN robots[i].urdfs :
                       result = Returned(robots[i].urdfs[j])
        ELSE target.disk.kind = "absent" => cpc = "raised" /\ answers = <<>>

\* C24: for a target that is no existing file or directory, resolve_urdf_path
\* raises FileNotFoundError without prompting when no robot has the target's
\* name up to case; otherwise it takes the files of the last such robot in
\* listing order and returns (resolved) the only file without prompting, or the
\* n-th file for the first response that is an integer n within 1..number of
\* files, every response before it having led to another prompt
Thm_C24 ==
    (Started /\ ByText /\ target.disk.kind = "absent") =>
        IF Matches = {} THEN cpc = "raised" /\ answers = <<>>
        ELSE ChosenAmong(Kept)

\* "ARM" finds the robot Arm; "two" is asked again, " 2 " picks its second file
Wit_C24 ==
    /\ cpc = "returned"
    /\ ByText
    /\ target.text = "ARM"
    /\ target.disk.kind = "absent"
    /\ answers = <<"two", " 2 ">>
    /\ result = Returned(Path(TRUE, "robots", "Arm", "b.urdf"))

\* a robot with a single file is returned without a prompt
Wit_C24_Single ==
    /\ cpc = "returned"
    /\ ByText
    /\ target.text = "cartpole"
    /\ target.disk.kind = "absent"
    /\ answers = <<>>
    /\ result.path.name = "cartpole"

\* an unknown name raises without a prompt
Wit_C24_Unknown ==
    /\ cpc = "raised"
    /\ ByText
    /\ target.text = "ghost"
    /\ target.disk.kind = "absent"
    /\ answers = <<>>

\* a robot's name that is also a file of the working directory
Wit_C24_Shadowed ==
    /\ cpc = "returned"
    /\ ByText
    /\ Matches # {}
    /\ target.disk.kind = "file"
    /\ result.path.base = "cwd"

====
